---- MODULE Spec2Model ----
(***************************************************************************)
(* A model of aws-build: Builder::run and Container::run of                *)
(* aws-build-lib/src/lib.rs with the ResetPodmanPermissions guard, the     *)
(* host filesystem entries they touch and the external commands they run.  *)
(* Paths are sequences of components; the root directory is <<>>.          *)
(***************************************************************************)
EXTENDS Integers, Sequences, FiniteSets, TLC

VARIABLES
    builder,        \* the Builder struct (immutable once constructed)
    fs,             \* host filesystem: path -> entry
    clock,          \* index in Dates of the current UTC date
    runs,           \* number of Builder::run calls made so far
    pc,             \* position inside Builder::run / Container::run
    loc,            \* local variables of Builder::run
    guard,          \* Option<ResetPodmanPermissions> of Container::run
    ret,            \* value Container::run is about to return
    result,         \* result of the current / last Builder::run
    output,         \* BuilderOutput of the last successful run
    logged,         \* messages written with error!()
    trace,          \* external commands and steps of the current run, in order
    latest_before,  \* what target/latest-<mode> held when the run began
    previous,       \* what the run before the current one did, if it succeeded
    conc,           \* two Builder::run invocations running side by side
    nm              \* inputs and outputs of the functions checked on their own

vars == <<builder, fs, clock, runs, pc, loc, guard, ret, result, output,
          logged, trace, latest_before, previous, conc, nm>>

----------------------------------------------------------------------------
(* Bounds of the model *)

\* Builder::run may be called this many times on the same Builder.
MaxRuns == 2

\* Depth to which symbolic links are followed by canonicalize.
MaxLinkDepth == 2

----------------------------------------------------------------------------
(* BuildMode *)

BuildModes == {"AmazonLinux2", "Lambda"}

BuildMode_name(mode) == IF mode = "AmazonLinux2" THEN "al2" ELSE "lambda"

DEFAULT_RUST_VERSION == "stable"

----------------------------------------------------------------------------
(* Paths and the filesystem *)

None == "None"

NoPath == <<"?">>

Dir == [kind |-> "dir", data |-> "", target |-> <<>>]
File(d) == [kind |-> "file", data |-> d, target |-> <<>>]
Link(t) == [kind |-> "link", data |-> "", target |-> t]
Absent == [kind |-> "absent", data |-> "", target |-> <<>>]

join(p, c) == Append(p, c)

parent(p) == IF p = <<>> THEN <<>> ELSE SubSeq(p, 1, Len(p) - 1)

entry(f, p) == IF p \in DOMAIN f THEN f[p] ELSE Absent

fs_put(f, p, e) == [q \in (DOMAIN f) \cup {p} |-> IF q = p THEN e ELSE f[q]]

fs_del(f, p) == [q \in (DOMAIN f) \ {p} |-> f[q]]

\* Path::starts_with / the test of Path::strip_prefix: component-wise prefix
starts_with(path, base) ==
    /\ Len(base) <= Len(path)
    /\ SubSeq(path, 1, Len(base)) = base

strip_prefix_swapped(path, base) ==
    IF starts_with(base, path)
    THEN [ok |-> TRUE, rel |-> <<>>]
    ELSE [ok |-> FALSE, rel |-> <<>>]

strip_prefix(path, base) ==
    IF starts_with(path, base)
    THEN [ok |-> TRUE, rel |-> SubSeq(path, Len(base) + 1, Len(path))]
    ELSE [ok |-> FALSE, rel |-> <<>>]

\* fs::canonicalize: resolves "..", follows symbolic links, and fails when a
\* component does not exist or a non-final component is not a directory.
RECURSIVE canon(_, _, _, _)
canon(f, acc, rest, depth) ==
    IF rest = <<>> THEN [ok |-> TRUE, path |-> acc]
    ELSE LET c == Head(rest)
             cand == join(acc, c)
             e == entry(f, cand)
         IN  IF c = ".." THEN canon(f, parent(acc), Tail(rest), depth)
             ELSE IF e.kind = "absent" THEN [ok |-> FALSE, path |-> NoPath]
             ELSE IF e.kind = "link"
                  THEN IF depth = 0 THEN [ok |-> FALSE, path |-> NoPath]
                       ELSE canon(f, <<>>, e.target \o Tail(rest), depth - 1)
             ELSE IF e.kind = "file" /\ Tail(rest) # <<>>
                  THEN [ok |-> FALSE, path |-> NoPath]
             ELSE canon(f, cand, Tail(rest), depth)

canonicalize(f, p) == canon(f, <<>>, p, MaxLinkDepth)

is_dir(f, p) == LET c == canonicalize(f, p)
                IN  c.ok /\ entry(f, c.path).kind = "dir"

\* where the operating system looks for the entry named by path: below the
\* canonical form of its parent (the last component is not followed)
real_path(f, path) ==
    IF path = <<>> THEN <<>>
    ELSE LET c == canonicalize(f, parent(path))
         IN  IF c.ok THEN join(c.path, path[Len(path)]) ELSE NoPath

ensure_dir_exists_strict(f, path, create_ok) ==
    LET real == real_path(f, path)
        created == /\ real # NoPath
                   /\ entry(f, real).kind = "absent"
                   /\ is_dir(f, parent(path))
                   /\ create_ok
        f2 == IF created THEN fs_put(f, real, Dir) ELSE f
    IN  [fs |-> f2, ok |-> created]

\* fs::create_dir followed by the is_dir test (lib.rs 27-33).  create_ok is
\* whether the operating system lets the directory be created when it is
\* missing; an existing entry always makes create_dir fail.
ensure_dir_exists(f, path, create_ok) ==
    LET real == real_path(f, path)
        created == /\ real # NoPath
                   /\ entry(f, real).kind = "absent"
                   /\ is_dir(f, parent(path))
                   /\ create_ok
        after == IF created THEN fs_put(f, real, Dir) ELSE f
    IN  CHOOSE r \in { [fs |-> f2, ok |-> is_dir(f2, path)] : f2 \in {after} } :
           TRUE

\* fs::remove_file: removes a file or a link; fails on a directory or a
\* missing entry, or when the operating system refuses (rm_ok = FALSE).
remove_file(f, path, rm_ok) ==
    IF entry(f, path).kind \in {"file", "link"} /\ rm_ok
    THEN fs_del(f, path) ELSE f

----------------------------------------------------------------------------
(* make_unique_name *)

Dates == << [year |-> 2020, month |-> 8, day |-> 31],
            [year |-> 2020, month |-> 9, day |-> 1] >>

Contents == {"testcontents", "other"}

Stripped(c) == c \o "-stripped"

Sha256Hex(c) ==
    CASE c = "testcontents" ->
           "7097a82a108e78da1f0a6b994cefbb3f97d14cf581734619c38d2eb8ef4f2e60"
      [] c = "testcontents-stripped" ->
           "3a2ed40c45a381fb57258e2d8f18d8d475b555dd2136db65638237a176aa155e"
      [] c = "other" ->
           "d9298a10d1b0735837dc4bd85dac641b0f3cef27a47e5d53a54f2f3f5b2fcffa"
      [] c = "other-stripped" ->
           "22a61dd1c53f35f5e4fccbcd92bc0d693d7e453ab450b91072cb530179e17de9"

\* {:02}
Pad2(n) == IF n >= 0 /\ n < 10 THEN "0" \o ToString(n) ELSE ToString(n)

\* {:.16x} of the digest
Hex16(digest) == SubSeq(digest, 1, 16)

make_unique_name(mode, name, contents, when) ==
    BuildMode_name(mode) \o "-" \o name \o "-" \o ToString(when.year)
        \o Pad2(when.month) \o Pad2(when.day) \o "-"
        \o Hex16(Sha256Hex(contents))

make_zip_name_unpadded(name, contents, when) ==
    name \o "-" \o ToString(when.year) \o ToString(when.month)
        \o ToString(when.day) \o "-" \o Hex16(Sha256Hex(contents)) \o ".zip"

\* make_zip_name of the older FunctionTarget packager (src/lib.rs 79-91)
make_zip_name(name, contents, when) ==
    name \o "-" \o ToString(when.year) \o Pad2(when.month)
        \o Pad2(when.day) \o "-" \o Hex16(Sha256Hex(contents)) \o ".zip"

Zip(contents) == "zip[bootstrap,0755]:" \o contents

----------------------------------------------------------------------------
(* The projects on the host and the Builders tried *)

InitFs ==
    LET dirs == { <<>>, <<"r">>, <<"r", "p">>, <<"r", "l">>, <<"q">> }
    IN  [p \in dirs |-> Dir]

\* cargo metadata: the binary targets of the project at a canonical path
ProjectBinaries(path) ==
    CASE path = <<"r", "p">> -> <<"proj">>
      [] path = <<"r">> -> <<"proj", "tool">>
      [] path = <<"r", "l">> -> << >>
      [] OTHER -> <<"single">>

CodeRoots == { <<"r">>, <<"r", "p">>, <<"q">> }

ProjectPaths == { <<"r", "p">>, <<"r">>, <<"r", "l">>, <<"q">>,
                  <<"r", "..", "q">>, <<"r", "x">> }

Relabels == {None, "Shared", "Unshared"}

RustVersions == {DEFAULT_RUST_VERSION, "1.45.2"}

\* every path and target choice with the default toolchain and no relabel,
\* and every toolchain and relabel choice for the project /r/p in /r
Builders ==
    [ rust_version : {DEFAULT_RUST_VERSION},
      mode : BuildModes,
      bin : {None, "proj"},
      strip : BOOLEAN,
      podman : BOOLEAN,
      relabel : {None},
      code_root : CodeRoots,
      project_path : ProjectPaths ]
    \cup
    [ rust_version : RustVersions,
      mode : BuildModes,
      bin : {None},
      strip : {FALSE},
      podman : BOOLEAN,
      relabel : Relabels,
      code_root : { <<"r">> },
      project_path : { <<"r", "p">> } ]

\* RunOpt and BuildOpt of docker_command before a command is prepared
NoRunOpt ==
    [ remove |-> FALSE, init |-> FALSE, user |-> "",
      env |-> [TARGET_DIR |-> NoPath, BIN_TARGET |-> ""],
      volumes |-> <<>>, image |-> "" ]

NoBuildOpt ==
    [ build_args |-> [ FROM_IMAGE |-> "", RUST_VERSION |-> "",
                       DEV_PKGS |-> "", PROJECT_PATH |-> NoPath ],
      tag |-> "" ]

NoLoc ==
    [ code_root |-> NoPath, project_path |-> NoPath,
      relative_project_path |-> NoPath, target_dir |-> NoPath,
      output_dir |-> NoPath, image_tag |-> "", binaries |-> <<>>,
      bin |-> "", registry_dir |-> NoPath, git_dir |-> NoPath,
      bin_path |-> NoPath, bin_contents |-> "", base_unique_name |-> "",
      out_path |-> NoPath, build_opt |-> NoBuildOpt, run_opt |-> NoRunOpt ]

NoGuard ==
    [some |-> FALSE, done |-> FALSE, dropped |-> FALSE, dir |-> NoPath]

NoOutput == [real |-> NoPath, symlink |-> NoPath]

Ev(name, ok) == [ev |-> name, ok |-> ok, by |-> ""]

NoPrevious == [ok |-> FALSE, real |-> NoPath, contents |-> "", date |-> 0]

\* the values of conc and nm while a single Builder::run is followed
NoConc == <<>>

NoNames == <<>>

ExternalCommands ==
    {"image_build", "cargo_metadata", "chown_acquire", "container_run",
     "chown_release", "strip"}

Init ==
    /\ builder \in Builders
    /\ fs = InitFs
    /\ clock = 1
    /\ runs = 0
    /\ pc = "idle"
    /\ loc = NoLoc
    /\ guard = NoGuard
    /\ ret = "none"
    /\ result = "none"
    /\ output = NoOutput
    /\ logged = <<>>
    /\ trace = <<>>
    /\ latest_before = Absent
    /\ previous = NoPrevious
    /\ conc = NoConc
    /\ nm = NoNames

----------------------------------------------------------------------------
(* Builder::run *)

\* a `?` or throw! in Builder::run
Fail(err) == pc' = "done" /\ result' = err

\* the caller invokes builder.run()
Builder_run_call ==
    /\ pc \in {"idle", "done"}
    /\ runs < MaxRuns
    /\ runs' = runs + 1
    /\ pc' = "canonicalize"
    /\ loc' = NoLoc
    /\ guard' = NoGuard
    /\ ret' = "none"
    /\ result' = "none"
    /\ logged' = <<>>
    /\ trace' = <<>>
    /\ latest_before' = Absent
    /\ previous' = IF result = "ok"
                   THEN [ok |-> TRUE, real |-> output.real,
                         contents |-> loc.bin_contents, date |-> clock]
                   ELSE NoPrevious
    /\ UNCHANGED <<conc, nm, builder, fs, clock, output>>

\* lib.rs 375-379
Builder_run_canonicalize ==
    /\ pc = "canonicalize"
    /\ LET code_root == canonicalize(fs, builder.code_root)
           project_path == canonicalize(fs, builder.project_path)
           rel == strip_prefix(project_path.path, code_root.path)
           target_dir == join(project_path.path, "target")
       IN  IF ~code_root.ok \/ ~project_path.ok
           THEN Fail("canonicalize failed")
                /\ UNCHANGED <<loc, latest_before>>
           ELSE IF ~rel.ok
           THEN Fail("project path must be within the code root")
                /\ UNCHANGED <<loc, latest_before>>
           ELSE /\ loc' = [loc EXCEPT
                        !.code_root = code_root.path,
                        !.project_path = project_path.path,
                        !.relative_project_path = rel.rel,
                        !.target_dir = target_dir,
                        !.output_dir = join(target_dir, "aws-build")]
                /\ latest_before' = entry(fs,
                        join(target_dir,
                             "latest-" \o BuildMode_name(builder.mode)))
                /\ pc' = "ensure_target"
                /\ UNCHANGED result
    /\ UNCHANGED <<previous, conc, nm, builder, fs, clock, runs, guard, ret, output, logged, trace>>

\* lib.rs 382-383
Builder_run_ensure_target ==
    /\ pc = "ensure_target"
    /\ \E create_ok \in BOOLEAN :
         LET r == ensure_dir_exists(fs, loc.target_dir, create_ok)
         IN  /\ fs' = r.fs
             /\ IF r.ok THEN pc' = "ensure_output" /\ UNCHANGED result
                        ELSE Fail("failed to create directory")
    /\ UNCHANGED <<previous, conc, nm, builder, clock, runs, loc, guard, ret, output, logged,
                   trace, latest_before>>

\* lib.rs 385-386
Builder_run_ensure_output ==
    /\ pc = "ensure_output"
    /\ \E create_ok \in BOOLEAN :
         LET r == ensure_dir_exists(fs, loc.output_dir, create_ok)
         IN  /\ fs' = r.fs
             /\ IF r.ok THEN pc' = "build_container" /\ UNCHANGED result
                        ELSE Fail("failed to create directory")
    /\ UNCHANGED <<previous, conc, nm, builder, clock, runs, loc, guard, ret, output, logged,
                   trace, latest_before>>

\* Builder::build_container, lib.rs 484-519: the image tag, the build context
\* written to a temporary directory, then the image build command.
image_tag_of_unversioned(b) == "aws-build-" \o BuildMode_name(b.mode)

image_tag_of(b) ==
    "aws-build-" \o BuildMode_name(b.mode) \o "-" \o b.rust_version

\* lib.rs 486-495
from_image(mode) ==
    IF mode = "AmazonLinux2" THEN "docker.io/amazonlinux:2"
    ELSE "docker.io/lambci/lambda:build-provided.al2"

\* lib.rs 499-515: the BuildOpt handed to launcher.build
build_opt_of(b, relative_project_path) ==
    [ build_args |-> [ FROM_IMAGE |-> from_image(b.mode),
                       RUST_VERSION |-> b.rust_version,
                       DEV_PKGS |-> "",
                       PROJECT_PATH |-> relative_project_path ],
      tag |-> image_tag_of(b) ]

Builder_build_container_lenient ==
    /\ pc = "build_container"
    /\ \E tmp_ok \in BOOLEAN, ok \in BOOLEAN :
         IF ~tmp_ok
         THEN Fail("container build failed") /\ UNCHANGED <<loc, trace>>
         ELSE /\ trace' = Append(trace, Ev("image_build", ok))
              /\ loc' = [loc EXCEPT
                    !.image_tag = image_tag_of(builder),
                    !.build_opt =
                        build_opt_of(builder, loc.relative_project_path)]
              /\ pc' = "get_binaries" /\ UNCHANGED result
    /\ UNCHANGED <<previous, conc, nm, builder, fs, clock, runs, guard, ret, output, logged,
                   latest_before>>

\* lib.rs 388-390
Builder_build_container ==
    /\ pc = "build_container"
    /\ \E tmp_ok \in BOOLEAN, ok \in BOOLEAN :
         IF ~tmp_ok
         THEN Fail("container build failed") /\ UNCHANGED <<loc, trace>>
         ELSE /\ trace' = Append(trace, Ev("image_build", ok))
              /\ IF ok
                 THEN /\ loc' = [loc EXCEPT
                             !.image_tag = image_tag_of(builder),
                             !.build_opt =
                                 build_opt_of(builder,
                                              loc.relative_project_path)]
                      /\ pc' = "get_binaries" /\ UNCHANGED result
                 ELSE Fail("container build failed") /\ UNCHANGED loc
    /\ UNCHANGED <<previous, conc, nm, builder, fs, clock, runs, guard, ret, output, logged,
                   latest_before>>

\* get_package_binaries, lib.rs 37-48 and 393: runs cargo metadata
Builder_run_get_package_binaries ==
    /\ pc = "get_binaries"
    /\ \E ok \in BOOLEAN :
         /\ trace' = Append(trace, Ev("cargo_metadata", ok))
         /\ IF ok
            THEN /\ loc' = [loc EXCEPT
                        !.binaries = ProjectBinaries(loc.project_path)]
                 /\ pc' = "select_bin" /\ UNCHANGED result
            ELSE Fail("cargo metadata failed") /\ UNCHANGED loc
    /\ UNCHANGED <<previous, conc, nm, builder, fs, clock, runs, guard, ret, output, logged,
                   latest_before>>

Builder_run_select_bin_first ==
    /\ pc = "select_bin"
    /\ IF builder.bin # None
       THEN /\ loc' = [loc EXCEPT !.bin = builder.bin]
            /\ pc' = "c_registry" /\ UNCHANGED result
       ELSE IF Len(loc.binaries) >= 1
       THEN /\ loc' = [loc EXCEPT !.bin = loc.binaries[1]]
            /\ pc' = "c_registry" /\ UNCHANGED result
       ELSE /\ Fail("must specify bin target when package has more than one")
            /\ UNCHANGED loc
    /\ UNCHANGED <<previous, conc, nm, builder, fs, clock, runs, guard, ret,
                   output, logged, trace, latest_before>>

Builder_run_select_bin_prompting ==
    /\ pc = "select_bin"
    /\ IF builder.bin # None
       THEN /\ loc' = [loc EXCEPT !.bin = builder.bin]
            /\ pc' = "c_registry" /\ UNCHANGED result
       ELSE IF Len(loc.binaries) = 1
       THEN /\ loc' = [loc EXCEPT !.bin = loc.binaries[1]]
            /\ pc' = "c_registry" /\ UNCHANGED result
       ELSE UNCHANGED <<pc, result, loc>>
    /\ UNCHANGED <<previous, conc, nm, builder, fs, clock, runs, guard, ret,
                   output, logged, trace, latest_before>>

\* lib.rs 396-404
Builder_run_select_bin ==
    /\ pc = "select_bin"
    /\ IF builder.bin # None
       THEN /\ loc' = [loc EXCEPT !.bin = builder.bin]
            /\ pc' = "c_registry" /\ UNCHANGED result
       ELSE IF Len(loc.binaries) = 1
       THEN /\ loc' = [loc EXCEPT !.bin = loc.binaries[1]]
            /\ pc' = "c_registry" /\ UNCHANGED result
       ELSE /\ Fail("must specify bin target when package has more than one")
            /\ UNCHANGED loc
    /\ UNCHANGED <<previous, conc, nm, builder, fs, clock, runs, guard, ret, output, logged,
                   trace, latest_before>>

----------------------------------------------------------------------------
(* Container::run and ResetPodmanPermissions *)

Container_run_registry_dir_in_target ==
    /\ pc = "c_registry"
    /\ \E create_ok \in BOOLEAN :
         LET dir == join(loc.target_dir,
                         BuildMode_name(builder.mode) \o "-cargo-registry")
             r == ensure_dir_exists(fs, dir, create_ok)
         IN  /\ fs' = r.fs
             /\ loc' = [loc EXCEPT !.registry_dir = dir]
             /\ IF r.ok THEN pc' = "c_git" /\ UNCHANGED ret
                        ELSE pc' = "c_return" /\ ret' = "err_dir"
    /\ UNCHANGED <<previous, conc, nm, builder, clock, runs, guard, result,
                   output, logged, trace, latest_before>>

\* lib.rs 176-179
Container_run_registry_dir ==
    /\ pc = "c_registry"
    /\ \E create_ok \in BOOLEAN :
         LET dir == join(loc.output_dir,
                         BuildMode_name(builder.mode) \o "-cargo-registry")
             r == ensure_dir_exists(fs, dir, create_ok)
         IN  /\ fs' = r.fs
             /\ loc' = [loc EXCEPT !.registry_dir = dir]
             /\ IF r.ok THEN pc' = "c_git" /\ UNCHANGED ret
                        ELSE pc' = "c_return" /\ ret' = "err_dir"
    /\ UNCHANGED <<previous, conc, nm, builder, clock, runs, guard, result, output, logged,
                   trace, latest_before>>

\* lib.rs 180-181
Container_run_git_dir ==
    /\ pc = "c_git"
    /\ \E create_ok \in BOOLEAN :
         LET dir == join(loc.output_dir,
                         BuildMode_name(builder.mode) \o "-cargo-git")
             r == ensure_dir_exists(fs, dir, create_ok)
         IN  /\ fs' = r.fs
             /\ loc' = [loc EXCEPT !.git_dir = dir]
             /\ IF r.ok THEN pc' = "c_acquire" /\ UNCHANGED ret
                        ELSE pc' = "c_return" /\ ret' = "err_dir"
    /\ UNCHANGED <<previous, conc, nm, builder, clock, runs, guard, result, output, logged,
                   trace, latest_before>>

Container_run_acquire_always ==
    /\ pc = "c_acquire"
    /\ \E ok \in BOOLEAN :
         /\ trace' = Append(trace, Ev("chown_acquire", ok))
         /\ IF ok
            THEN /\ guard' = [some |-> TRUE, done |-> FALSE,
                              dropped |-> FALSE, dir |-> loc.output_dir]
                 /\ pc' = "c_cmd" /\ UNCHANGED ret
            ELSE /\ pc' = "c_return" /\ ret' = "err_acquire"
                 /\ UNCHANGED guard
    /\ UNCHANGED <<previous, conc, nm, builder, fs, clock, runs, loc, result, output, logged,
                   latest_before>>

Container_run_acquire_unchecked ==
    /\ pc = "c_acquire"
    /\ IF builder.podman
       THEN \E ok \in BOOLEAN :
              /\ trace' = Append(trace, Ev("chown_acquire", ok))
              /\ guard' = [some |-> TRUE, done |-> FALSE,
                           dropped |-> FALSE, dir |-> loc.output_dir]
              /\ pc' = "c_cmd" /\ UNCHANGED ret
       ELSE /\ pc' = "c_cmd"
            /\ UNCHANGED <<trace, guard, ret>>
    /\ UNCHANGED <<previous, conc, nm, builder, fs, clock, runs, loc, result, output, logged,
                   latest_before>>

\* lib.rs 183-196: set_podman_permissions for the current user, then the
\* guard that will give the directory back
Container_run_acquire ==
    /\ pc = "c_acquire"
    /\ IF builder.podman
       THEN \E ok \in BOOLEAN :
              /\ trace' = Append(trace, Ev("chown_acquire", ok))
              /\ IF ok
                 THEN /\ guard' = [some |-> TRUE, done |-> FALSE,
                                   dropped |-> FALSE, dir |-> loc.output_dir]
                      /\ pc' = "c_cmd" /\ UNCHANGED ret
                 ELSE /\ pc' = "c_return" /\ ret' = "err_acquire"
                      /\ UNCHANGED guard
       ELSE /\ pc' = "c_cmd"
            /\ UNCHANGED <<trace, guard, ret>>
    /\ UNCHANGED <<previous, conc, nm, builder, fs, clock, runs, loc, result, output, logged,
                   latest_before>>

built_bin_path_debug(output_dir, mode, bin) ==
    join(join(join(output_dir, BuildMode_name(mode)), "debug"), bin)

\* the path Container::run returns for the built binary (lib.rs 257-260)
built_bin_path(output_dir, mode, bin) ==
    join(join(join(output_dir, BuildMode_name(mode)), "release"), bin)

\* lib.rs 198-202
mount_options_both(relabel) ==
    CASE relabel = "Shared" -> <<"z">>
      [] relabel = "Unshared" -> <<"z", "Z">>
      [] OTHER -> <<>>

mount_options(relabel) ==
    CASE relabel = "Shared" -> <<"z">>
      [] relabel = "Unshared" -> <<"Z">>
      [] OTHER -> <<>>

Volume(src, dst, read_write, options) ==
    [src |-> src, dst |-> dst, read_write |-> read_write,
     options |-> options]

run_opt_writable_root(b, l) ==
    [ remove |-> TRUE,
      env |-> [ TARGET_DIR |-> <<"code", "target", BuildMode_name(b.mode)>>,
                BIN_TARGET |-> l.bin ],
      init |-> TRUE,
      user |-> "current",
      volumes |->
        << Volume(l.code_root, <<"code">>, TRUE, mount_options(b.relabel)),
           Volume(l.registry_dir, <<"cargo", "registry">>, TRUE,
                  mount_options(b.relabel)),
           Volume(l.git_dir, <<"cargo", "git">>, TRUE,
                  mount_options(b.relabel)),
           Volume(l.output_dir, <<"code", "target">>, TRUE,
                  mount_options(b.relabel)) >>,
      image |-> l.image_tag ]

\* lib.rs 204-246: the RunOpt handed to launcher.run
run_opt_of(b, l) ==
    [ remove |-> TRUE,
      env |-> [ TARGET_DIR |-> <<"code", "target", BuildMode_name(b.mode)>>,
                BIN_TARGET |-> l.bin ],
      init |-> TRUE,
      user |-> "current",
      volumes |->
        << Volume(l.code_root, <<"code">>, FALSE, mount_options(b.relabel)),
           Volume(l.registry_dir, <<"cargo", "registry">>, TRUE,
                  mount_options(b.relabel)),
           Volume(l.git_dir, <<"cargo", "git">>, TRUE,
                  mount_options(b.relabel)),
           Volume(l.output_dir, <<"code", "target">>, TRUE,
                  mount_options(b.relabel)) >>,
      image |-> l.image_tag ]

\* the host path a path of the container stands for: the mount whose
\* destination is the longest prefix of the path decides
host_image(volumes, cpath) ==
    LET over == {k \in DOMAIN volumes : starts_with(cpath, volumes[k].dst)}
    IN  IF over = {} THEN NoPath
        ELSE LET k == CHOOSE j \in over :
                        \A i \in over :
                            Len(volumes[i].dst) <= Len(volumes[j].dst)
             IN  volumes[k].src
                    \o strip_prefix(cpath, volumes[k].dst).rel

\* container/build.sh: the binary is left at TARGET_DIR/release/BIN_TARGET
script_bin_path(env) ==
    join(join(env.TARGET_DIR, "release"), env.BIN_TARGET)

\* lib.rs 204-248: the container run command.  On success the build script
\* has written the binary, through the mounts, below the output directory.
Container_run_cmd ==
    /\ pc = "c_cmd"
    /\ \E ok \in BOOLEAN, c \in Contents :
         LET opt == run_opt_of(builder, loc)
             bin_host == host_image(opt.volumes, script_bin_path(opt.env))
         IN  /\ trace' = Append(trace, Ev("container_run", ok))
             /\ loc' = [loc EXCEPT !.run_opt = opt]
             /\ IF ok
                THEN LET f1 == fs_put(fs, parent(parent(bin_host)), Dir)
                         f2 == fs_put(f1, parent(bin_host), Dir)
                     IN  /\ fs' = fs_put(f2, bin_host, File(c))
                         /\ IF guard.some
                            THEN pc' = "c_reset" /\ UNCHANGED ret
                            ELSE pc' = "c_return" /\ ret' = "ok"
                ELSE /\ ret' = "err_run"
                     /\ pc' = IF guard.some THEN "c_drop" ELSE "c_return"
                     /\ UNCHANGED fs
    /\ UNCHANGED <<previous, conc, nm, builder, clock, runs, guard, result,
                   output, logged, latest_before>>

reset_permissions_unguarded(g, ok) ==
    [ran |-> TRUE, err |-> ~ok, done |-> ok]

\* ResetPodmanPermissions::reset_permissions, lib.rs 139-144.  ok is the exit
\* status of the chown command, should it be run.
reset_permissions(g, ok) ==
    IF ~g.done
    THEN [ran |-> TRUE, err |-> ~ok, done |-> ok]
    ELSE [ran |-> FALSE, err |-> FALSE, done |-> TRUE]

release_events(r, ok, by) ==
    IF r.ran THEN << [ev |-> "chown_release", ok |-> ok, by |-> by] >>
             ELSE << >>

Container_run_reset_logged ==
    /\ pc = "c_reset"
    /\ \E ok \in BOOLEAN :
         LET r == reset_permissions(guard, ok)
         IN  /\ trace' = trace \o release_events(r, ok, "explicit")
             /\ guard' = [guard EXCEPT !.done = r.done]
             /\ ret' = "ok"
             /\ logged' = IF r.err
                          THEN Append(logged, "failed to reset permissions")
                          ELSE logged
             /\ pc' = "c_drop"
    /\ UNCHANGED <<previous, conc, nm, builder, fs, clock, runs, loc, result, output,
                   latest_before>>

\* lib.rs 250-254: resetter.reset_permissions()?
Container_run_reset ==
    /\ pc = "c_reset"
    /\ \E ok \in BOOLEAN :
         LET r == reset_permissions(guard, ok)
         IN  /\ trace' = trace \o release_events(r, ok, "explicit")
             /\ guard' = [guard EXCEPT !.done = r.done]
             /\ ret' = IF r.err THEN "err_release" ELSE "ok"
             /\ pc' = "c_drop"
    /\ UNCHANGED <<previous, conc, nm, builder, fs, clock, runs, loc, result, output, logged,
                   latest_before>>

ResetPodmanPermissions_drop_propagating ==
    /\ pc = "c_drop"
    /\ \E ok \in BOOLEAN :
         LET r == reset_permissions(guard, ok)
         IN  /\ trace' = trace \o release_events(r, ok, "drop")
             /\ guard' = [guard EXCEPT !.some = FALSE, !.done = r.done,
                                       !.dropped = TRUE]
             /\ ret' = IF r.err THEN "err_release" ELSE ret
             /\ UNCHANGED logged
             /\ pc' = "c_return"
    /\ UNCHANGED <<previous, conc, nm, builder, fs, clock, runs, loc, result, output,
                   latest_before>>

\* Drop for ResetPodmanPermissions, lib.rs 147-153: runs when the guard goes
\* out of scope, on the error return of cmd.run()? or of reset_permissions()?
\* and at the end of the if-let block.
ResetPodmanPermissions_drop ==
    /\ pc = "c_drop"
    /\ \E ok \in BOOLEAN :
         LET r == reset_permissions(guard, ok)
         IN  /\ trace' = trace \o release_events(r, ok, "drop")
             /\ guard' = [guard EXCEPT !.some = FALSE, !.done = r.done,
                                       !.dropped = TRUE]
             /\ logged' = IF r.err
                          THEN Append(logged, "failed to reset permissions")
                          ELSE logged
             /\ pc' = "c_return"
    /\ UNCHANGED <<previous, conc, nm, builder, fs, clock, runs, loc, ret, result, output,
                   latest_before>>

Builder_run_container_return_lenient ==
    /\ pc = "c_return"
    /\ IF ret \in {"ok", "err_release"}
       THEN /\ loc' = [loc EXCEPT !.bin_path =
                         built_bin_path(loc.output_dir, builder.mode, loc.bin)]
            /\ pc' = "strip" /\ UNCHANGED result
       ELSE Fail("container run failed") /\ UNCHANGED loc
    /\ UNCHANGED <<previous, conc, nm, builder, fs, clock, runs, guard, ret,
                   output, logged, trace, latest_before>>

\* lib.rs 416: container.run().context("container run failed")?
Builder_run_container_return ==
    /\ pc = "c_return"
    /\ IF ret = "ok"
       THEN /\ loc' = [loc EXCEPT !.bin_path =
                         built_bin_path(loc.output_dir, builder.mode, loc.bin)]
            /\ pc' = "strip" /\ UNCHANGED result
       ELSE Fail("container run failed") /\ UNCHANGED loc
    /\ UNCHANGED <<previous, conc, nm, builder, fs, clock, runs, guard, ret, output, logged,
                   trace, latest_before>>

----------------------------------------------------------------------------
(* Builder::run after the container: strip, naming, packaging, pointer *)

Builder_run_strip_retrying ==
    /\ pc = "strip"
    /\ IF builder.strip
       THEN \E ok \in BOOLEAN :
              /\ trace' = Append(trace, Ev("strip", ok))
              /\ IF ok
                 THEN /\ fs' = fs_put(fs, loc.bin_path,
                                File(Stripped(entry(fs, loc.bin_path).data)))
                      /\ pc' = "read"
                 ELSE UNCHANGED <<fs, pc>>
              /\ UNCHANGED result
       ELSE /\ pc' = "read"
            /\ UNCHANGED <<trace, fs, result>>
    /\ UNCHANGED <<previous, conc, nm, builder, clock, runs, loc, guard, ret,
                   output, logged, latest_before>>

Builder_run_strip_ignoring_failure ==
    /\ pc = "strip"
    /\ IF builder.strip
       THEN \E ok \in BOOLEAN :
              /\ trace' = Append(trace, Ev("strip", ok))
              /\ fs' = IF ok
                       THEN fs_put(fs, loc.bin_path,
                                File(Stripped(entry(fs, loc.bin_path).data)))
                       ELSE fs
              /\ pc' = "read" /\ UNCHANGED result
       ELSE /\ pc' = "read"
            /\ UNCHANGED <<trace, fs, result>>
    /\ UNCHANGED <<previous, conc, nm, builder, clock, runs, loc, guard, ret,
                   output, logged, latest_before>>

\* strip, lib.rs 99-104 and 419-421
Builder_run_strip ==
    /\ pc = "strip"
    /\ IF builder.strip
       THEN \E ok \in BOOLEAN :
              /\ trace' = Append(trace, Ev("strip", ok))
              /\ IF ok
                 THEN /\ fs' = fs_put(fs, loc.bin_path,
                                File(Stripped(entry(fs, loc.bin_path).data)))
                      /\ pc' = "read" /\ UNCHANGED result
                 ELSE Fail("strip failed") /\ UNCHANGED fs
       ELSE /\ pc' = "read"
            /\ UNCHANGED <<trace, fs, result>>
    /\ UNCHANGED <<previous, conc, nm, builder, clock, runs, loc, guard, ret, output, logged,
                   latest_before>>

Builder_run_read_numbered ==
    /\ pc = "read"
    /\ \E ok \in BOOLEAN, d \in clock..Len(Dates) :
         IF ok /\ entry(fs, loc.bin_path).kind = "file"
         THEN LET contents == entry(fs, loc.bin_path).data
              IN  /\ loc' = [loc EXCEPT
                         !.bin_contents = contents,
                         !.base_unique_name =
                             make_unique_name(builder.mode, loc.bin,
                                              contents, Dates[d])
                                 \o "-" \o ToString(runs)]
                  /\ clock' = d
                  /\ pc' = "package" /\ UNCHANGED result
         ELSE Fail("failed to read") /\ UNCHANGED <<loc, clock>>
    /\ UNCHANGED <<previous, conc, nm, builder, fs, runs, guard, ret, output,
                   logged, trace, latest_before>>

Builder_run_read_stale ==
    /\ pc = "read"
    /\ \E ok \in BOOLEAN, d \in clock..Len(Dates) :
         IF ok /\ entry(fs, loc.bin_path).kind = "file"
         THEN LET contents == entry(fs, loc.bin_path).data
                  hashed == IF previous.ok THEN previous.contents
                                           ELSE contents
              IN  /\ loc' = [loc EXCEPT
                         !.bin_contents = contents,
                         !.base_unique_name =
                             make_unique_name(builder.mode, loc.bin,
                                              hashed, Dates[d])]
                  /\ clock' = d
                  /\ pc' = "package" /\ UNCHANGED result
         ELSE Fail("failed to read") /\ UNCHANGED <<loc, clock>>
    /\ UNCHANGED <<previous, conc, nm, builder, fs, runs, guard, ret, output,
                   logged, trace, latest_before>>

\* lib.rs 423-429: read the binary, then name it after its contents and the
\* current UTC date (the date never goes back)
Builder_run_read ==
    /\ pc = "read"
    /\ \E ok \in BOOLEAN, d \in clock..Len(Dates) :
         IF ok /\ entry(fs, loc.bin_path).kind = "file"
         THEN LET contents == entry(fs, loc.bin_path).data
              IN  /\ loc' = [loc EXCEPT
                         !.bin_contents = contents,
                         !.base_unique_name =
                             make_unique_name(builder.mode, loc.bin,
                                              contents, Dates[d])]
                  /\ clock' = d
                  /\ pc' = "package" /\ UNCHANGED result
         ELSE Fail("failed to read") /\ UNCHANGED <<loc, clock>>
    /\ UNCHANGED <<previous, conc, nm, builder, fs, runs, guard, ret, output, logged, trace,
                   latest_before>>

Builder_run_package_always_zip ==
    /\ pc = "package"
    /\ \E ok \in BOOLEAN :
         LET mode_dir == join(loc.output_dir, BuildMode_name(builder.mode))
             out_path == join(mode_dir, loc.base_unique_name \o ".zip")
             data == Zip(loc.bin_contents)
         IN  /\ trace' = Append(trace, Ev("package", ok))
             /\ IF ok
                THEN /\ fs' = fs_put(fs, out_path, File(data))
                     /\ loc' = [loc EXCEPT !.out_path = out_path]
                     /\ pc' = "symlink" /\ UNCHANGED result
                ELSE Fail("failed to write") /\ UNCHANGED <<fs, loc>>
    /\ UNCHANGED <<previous, conc, nm, builder, clock, runs, guard, ret,
                   output, logged, latest_before>>

symlink_path_of(target_dir, mode) ==
    join(target_dir, "latest-" \o BuildMode_name(mode))

\* what a write that stopped half way leaves at the destination
Unfinished(data) == "unfinished:" \o data

\* how fs::copy, or File::create and the ZipWriter calls, can end: done; the
\* destination could not be created; a later call failed and the
\* destination is left unfinished
PackageOutcomes == {"ok", "not created", "unfinished"}

Builder_run_package_unchecked ==
    /\ pc = "package"
    /\ \E outcome \in PackageOutcomes :
         LET mode_dir == join(loc.output_dir, BuildMode_name(builder.mode))
             out_path == IF builder.mode = "AmazonLinux2"
                         THEN join(mode_dir, loc.base_unique_name)
                         ELSE join(mode_dir, loc.base_unique_name \o ".zip")
             data == IF builder.mode = "AmazonLinux2"
                     THEN entry(fs, loc.bin_path).data
                     ELSE Zip(loc.bin_contents)
         IN  /\ trace' = Append(trace, Ev("package", outcome = "ok"))
             /\ fs' = CASE outcome = "ok" -> fs_put(fs, out_path, File(data))
                        [] outcome = "unfinished" ->
                              fs_put(fs, out_path, File(Unfinished(data)))
                        [] OTHER -> fs
             /\ IF outcome # "not created"
                THEN /\ loc' = [loc EXCEPT !.out_path = out_path]
                     /\ pc' = "symlink" /\ UNCHANGED result
                ELSE Fail("failed to write") /\ UNCHANGED loc
    /\ UNCHANGED <<previous, conc, nm, builder, clock, runs, guard, ret,
                   output, logged, latest_before>>

Builder_run_package_unlinks_first ==
    /\ pc = "package"
    /\ \E outcome \in PackageOutcomes :
         LET mode_dir == join(loc.output_dir, BuildMode_name(builder.mode))
             out_path == IF builder.mode = "AmazonLinux2"
                         THEN join(mode_dir, loc.base_unique_name)
                         ELSE join(mode_dir, loc.base_unique_name \o ".zip")
             data == IF builder.mode = "AmazonLinux2"
                     THEN entry(fs, loc.bin_path).data
                     ELSE Zip(loc.bin_contents)
             f0 == remove_file(fs, symlink_path_of(loc.target_dir,
                                                   builder.mode), TRUE)
         IN  /\ trace' = Append(trace, Ev("package", outcome = "ok"))
             /\ fs' = CASE outcome = "ok" -> fs_put(f0, out_path, File(data))
                        [] outcome = "unfinished" ->
                              fs_put(f0, out_path, File(Unfinished(data)))
                        [] OTHER -> f0
             /\ IF outcome = "ok"
                THEN /\ loc' = [loc EXCEPT !.out_path = out_path]
                     /\ pc' = "symlink" /\ UNCHANGED result
                ELSE Fail("failed to write") /\ UNCHANGED loc
    /\ UNCHANGED <<previous, conc, nm, builder, clock, runs, guard, ret,
                   output, logged, latest_before>>

\* lib.rs 431-465: copy (AmazonLinux2) or zip (Lambda) to the unique name
Builder_run_package ==
    /\ pc = "package"
    /\ \E outcome \in PackageOutcomes :
         LET mode_dir == join(loc.output_dir, BuildMode_name(builder.mode))
             out_path == IF builder.mode = "AmazonLinux2"
                         THEN join(mode_dir, loc.base_unique_name)
                         ELSE join(mode_dir, loc.base_unique_name \o ".zip")
             data == IF builder.mode = "AmazonLinux2"
                     THEN entry(fs, loc.bin_path).data
                     ELSE Zip(loc.bin_contents)
         IN  /\ trace' = Append(trace, Ev("package", outcome = "ok"))
             /\ fs' = CASE outcome = "ok" -> fs_put(fs, out_path, File(data))
                        [] outcome = "unfinished" ->
                              fs_put(fs, out_path, File(Unfinished(data)))
                        [] OTHER -> fs
             /\ IF outcome = "ok"
                THEN /\ loc' = [loc EXCEPT !.out_path = out_path]
                     /\ pc' = "symlink" /\ UNCHANGED result
                ELSE Fail("failed to write") /\ UNCHANGED loc
    /\ UNCHANGED <<previous, conc, nm, builder, clock, runs, guard, ret, output, logged,
                   latest_before>>

Builder_run_symlink_strict_remove ==
    /\ pc = "symlink"
    /\ \E rm_ok \in BOOLEAN, link_ok \in BOOLEAN :
         LET symlink_path == symlink_path_of(loc.target_dir, builder.mode)
             f1 == remove_file(fs, symlink_path, rm_ok)
             created == /\ f1 # fs
                        /\ entry(f1, symlink_path).kind = "absent"
                        /\ link_ok
         IN  /\ fs' = IF created
                      THEN fs_put(f1, symlink_path, Link(loc.out_path))
                      ELSE f1
             /\ trace' = Append(trace,
                    [ev |-> "symlink", ok |-> created,
                     by |-> IF f1 = fs THEN "remove failed" ELSE "removed"])
             /\ IF created
                THEN /\ pc' = "done"
                     /\ result' = "ok"
                     /\ output' = [real |-> loc.out_path,
                                   symlink |-> symlink_path]
                ELSE IF f1 = fs
                THEN Fail("failed to remove symlink") /\ UNCHANGED output
                ELSE Fail("failed to create symlink") /\ UNCHANGED output
    /\ UNCHANGED <<previous, conc, nm, builder, clock, runs, loc, guard, ret,
                   logged, latest_before>>

Builder_run_symlink_cleanup ==
    /\ pc = "symlink"
    /\ \E rm_ok \in BOOLEAN, link_ok \in BOOLEAN :
         LET symlink_path == symlink_path_of(loc.target_dir, builder.mode)
             f1 == remove_file(fs, symlink_path, rm_ok)
             created == entry(f1, symlink_path).kind = "absent" /\ link_ok
         IN  /\ fs' = IF created
                      THEN fs_put(f1, symlink_path, Link(loc.out_path))
                      ELSE fs_del(f1, loc.out_path)
             /\ trace' = Append(trace,
                    [ev |-> "symlink", ok |-> created,
                     by |-> IF f1 = fs THEN "remove failed" ELSE "removed"])
             /\ IF created
                THEN /\ pc' = "done"
                     /\ result' = "ok"
                     /\ output' = [real |-> loc.out_path,
                                   symlink |-> symlink_path]
                ELSE Fail("failed to create symlink") /\ UNCHANGED output
    /\ UNCHANGED <<previous, conc, nm, builder, clock, runs, loc, guard, ret,
                   logged, latest_before>>

Builder_run_symlink_unchecked ==
    /\ pc = "symlink"
    /\ \E rm_ok \in BOOLEAN, link_ok \in BOOLEAN :
         LET symlink_path == symlink_path_of(loc.target_dir, builder.mode)
             f1 == remove_file(fs, symlink_path, rm_ok)
             created == entry(f1, symlink_path).kind = "absent" /\ link_ok
         IN  /\ fs' = IF created
                      THEN fs_put(f1, symlink_path, Link(loc.out_path))
                      ELSE f1
             /\ trace' = Append(trace,
                    [ev |-> "symlink", ok |-> created,
                     by |-> IF f1 = fs THEN "remove failed" ELSE "removed"])
             /\ pc' = "done"
             /\ result' = "ok"
             /\ output' = [real |-> loc.out_path, symlink |-> symlink_path]
    /\ UNCHANGED <<previous, conc, nm, builder, clock, runs, loc, guard, ret, logged,
                   latest_before>>

Builder_run_symlink_removes_target ==
    /\ pc = "symlink"
    /\ \E rm_ok \in BOOLEAN, link_ok \in BOOLEAN :
         LET symlink_path == symlink_path_of(loc.target_dir, builder.mode)
             f1 == remove_file(fs, loc.out_path, rm_ok)
             created == entry(f1, symlink_path).kind = "absent" /\ link_ok
         IN  /\ fs' = IF created
                      THEN fs_put(f1, symlink_path, Link(loc.out_path))
                      ELSE f1
             /\ trace' = Append(trace,
                    [ev |-> "symlink", ok |-> created,
                     by |-> IF f1 = fs THEN "remove failed" ELSE "removed"])
             /\ IF created
                THEN /\ pc' = "done"
                     /\ result' = "ok"
                     /\ output' = [real |-> loc.out_path,
                                   symlink |-> symlink_path]
                ELSE Fail("failed to create symlink") /\ UNCHANGED output
    /\ UNCHANGED <<previous, conc, nm, builder, clock, runs, loc, guard, ret,
                   logged, latest_before>>

\* lib.rs 467-480: best-effort remove, then create the symbolic link
Builder_run_symlink ==
    /\ pc = "symlink"
    /\ \E rm_ok \in BOOLEAN, link_ok \in BOOLEAN :
         LET symlink_path == symlink_path_of(loc.target_dir, builder.mode)
             f1 == remove_file(fs, symlink_path, rm_ok)
             created == entry(f1, symlink_path).kind = "absent" /\ link_ok
         IN  /\ fs' = IF created
                      THEN fs_put(f1, symlink_path, Link(loc.out_path))
                      ELSE f1
             /\ trace' = Append(trace,
                    [ev |-> "symlink", ok |-> created,
                     by |-> IF f1 = fs THEN "remove failed" ELSE "removed"])
             /\ IF created
                THEN /\ pc' = "done"
                     /\ result' = "ok"
                     /\ output' = [real |-> loc.out_path,
                                   symlink |-> symlink_path]
                ELSE Fail("failed to create symlink") /\ UNCHANGED output
    /\ UNCHANGED <<previous, conc, nm, builder, clock, runs, loc, guard, ret, logged,
                   latest_before>>

----------------------------------------------------------------------------

Next ==
    \/ Builder_run_call
    \/ Builder_run_canonicalize
    \/ Builder_run_ensure_target
    \/ Builder_run_ensure_output
    \/ Builder_build_container
    \/ Builder_run_get_package_binaries
    \/ Builder_run_select_bin
    \/ Container_run_registry_dir
    \/ Container_run_git_dir
    \/ Container_run_acquire
    \/ Container_run_cmd
    \/ Container_run_reset
    \/ ResetPodmanPermissions_drop
    \/ Builder_run_container_return
    \/ Builder_run_strip
    \/ Builder_run_read
    \/ Builder_run_package
    \/ Builder_run_symlink

Spec == Init /\ [][Next]_vars

\* the steps inside Builder::run: everything but the caller's decision to
\* call it
RunStep ==
    \/ Builder_run_canonicalize
    \/ Builder_run_ensure_target
    \/ Builder_run_ensure_output
    \/ Builder_build_container
    \/ Builder_run_get_package_binaries
    \/ Builder_run_select_bin
    \/ Container_run_registry_dir
    \/ Container_run_git_dir
    \/ Container_run_acquire
    \/ Container_run_cmd
    \/ Container_run_reset
    \/ ResetPodmanPermissions_drop
    \/ Builder_run_container_return
    \/ Builder_run_strip
    \/ Builder_run_read
    \/ Builder_run_package
    \/ Builder_run_symlink

\* the builders the termination check starts from: a project with one
\* binary, one with two, and a path that does not exist, in both modes, with
\* and without podman, with the strip step
LiveBuilders ==
    { b \in Builders :
         /\ b.rust_version = DEFAULT_RUST_VERSION
         /\ b.strip
         /\ b.bin = None
         /\ b.relabel = None
         /\ b.code_root = <<"r">>
         /\ b.project_path \in { <<"r", "p">>, <<"r">>, <<"r", "x">> } }

InitLive == Init /\ builder \in LiveBuilders

\* a started Builder::run keeps executing, and every external command it
\* waits for exits
SpecLive == InitLive /\ [][Next]_vars /\ WF_vars(RunStep)

----------------------------------------------------------------------------
(* Vocabulary of the properties *)

Events(name) == {i \in DOMAIN trace : trace[i].ev = name}

Happened(name, ok) == \E i \in Events(name) : trace[i].ok = ok

ReleasedBy(by, ok) ==
    \E i \in Events("chown_release") : trace[i].by = by /\ trace[i].ok = ok

ExternalEvents == {i \in DOMAIN trace : trace[i].ev \in ExternalCommands}

\* Container::run has returned to Builder::run, which has not yet looked at
\* the value
ContainerReturned == pc = "c_return"

\* Builder::run has returned
RunReturned == pc = "done"

CanonRoot == canonicalize(fs, builder.code_root)

CanonProject == canonicalize(fs, builder.project_path)

\* the canonical project path is neither the code root nor below it
ProjectOutsideRoot ==
    /\ CanonRoot.ok
    /\ CanonProject.ok
    /\ ~starts_with(CanonProject.path, CanonRoot.path)

StepNames == <<"image_build", "container_run", "package", "symlink">>

IsStep(e) == \E k \in DOMAIN StepNames : e.ev = StepNames[k]

StepTrace == SelectSeq(trace, IsStep)

----------------------------------------------------------------------------
(* Properties *)

\* C1: with podman, once the acquire chown has succeeded, the release chown
\* is executed exactly once by the time Container::run returns, whichever way
\* it returns.
C1_ReleaseExactlyOnce ==
    (ContainerReturned /\ Happened("chown_acquire", TRUE))
        => Cardinality(Events("chown_release")) = 1

\* C2: once reset_permissions has succeeded, the later call on the same guard
\* (the one made by Drop) runs no command, reports no error and leaves done
\* set.
C2_DoubleReleaseNoOp ==
    [][(pc = "c_drop" /\ guard.done)
          => /\ trace' = trace
             /\ logged' = logged
             /\ ret' = ret
             /\ guard'.done]_vars

C2_Witness ==
    /\ ContainerReturned
    /\ guard.dropped /\ guard.done
    /\ ReleasedBy("explicit", TRUE)

\* C3 as stated: when the container command succeeded and the release chown
\* fails, the failure is logged and Container::run still returns the path of
\* the built binary.
C3_ReleaseFailureNeverOverrides ==
    (ContainerReturned /\ Happened("container_run", TRUE)
         /\ Happened("chown_release", FALSE))
        => /\ ret = "ok"
           /\ logged # <<>>

\* C3 amended: when the container command succeeded and the explicit release
\* chown fails, Container::run returns the release error and Builder::run
\* fails with "container run failed" without a binary path; a message is
\* logged exactly for a failing release made by Drop.
C3_ExplicitReleaseFailurePropagates ==
    /\ (Happened("container_run", TRUE) /\ ReleasedBy("explicit", FALSE))
          => /\ ContainerReturned => ret = "err_release"
             /\ pc \in {"c_drop", "c_return", "done"}
             /\ RunReturned => /\ result = "container run failed"
                               /\ loc.bin_path = NoPath
    /\ Len(logged) =
          Cardinality({i \in Events("chown_release") :
                          trace[i].by = "drop" /\ ~trace[i].ok})

C3_Witness ==
    /\ RunReturned
    /\ Happened("container_run", TRUE)
    /\ ReleasedBy("explicit", FALSE)

\* C4: when the container command fails with podman and the release made on
\* scope exit fails too, Container::run returns the container command's
\* error, the release failure is only logged, and the run goes on to return.
C4_DropFailureKeepsPrimaryError ==
    (Happened("container_run", FALSE) /\ ReleasedBy("drop", FALSE))
        => /\ pc \in {"c_return", "done"}
           /\ ret = "err_run"
           /\ logged = <<"failed to reset permissions">>
           /\ RunReturned => result = "container run failed"

C4_Witness ==
    /\ RunReturned
    /\ Happened("container_run", FALSE)
    /\ ReleasedBy("drop", FALSE)

\* C5: with podman the container run command comes only after a successful
\* acquire chown; a failed acquire makes Container::run return that error
\* with no container run and no release command.
C5_AcquireBeforeRun ==
    builder.podman =>
        /\ \A i \in Events("container_run") :
              \E j \in Events("chown_acquire") : j < i /\ trace[j].ok
        /\ Happened("chown_acquire", FALSE)
              => /\ Events("container_run") = {}
                 /\ Events("chown_release") = {}
                 /\ ~guard.some /\ ~guard.dropped
                 /\ pc \in {"c_return", "done"}
                 /\ ret = "err_acquire"
                 /\ RunReturned => result = "container run failed"

C5_Witness ==
    /\ builder.podman
    /\ RunReturned
    /\ Happened("chown_acquire", FALSE)

\* C6: without podman no ownership-changing command is ever executed, on
\* success or on failure.
C6_NoChownWithoutPodman ==
    ~builder.podman =>
        /\ Events("chown_acquire") = {}
        /\ Events("chown_release") = {}
        /\ ~guard.some /\ ~guard.dropped

C6_Witness ==
    /\ ~builder.podman
    /\ RunReturned
    /\ Events("container_run") # {}

\* C7: when the canonical project path is neither the code root nor below
\* it, Builder::run fails before any external process is invoked.
C7_OutsideRootFailsEarly ==
    ProjectOutsideRoot =>
        /\ ExternalEvents = {}
        /\ pc \in {"idle", "canonicalize", "done"}
        /\ RunReturned =>
              result = "project path must be within the code root"

C7_Witness ==
    /\ ProjectOutsideRoot
    /\ RunReturned
    /\ starts_with(builder.project_path, builder.code_root)

\* C8: with more than one binary target and no explicit bin, Builder::run
\* fails and neither the image build nor the container run command is
\* invoked.
C8_AmbiguousBinNoContainerWork ==
    (/\ RunReturned
     /\ builder.bin = None
     /\ CanonProject.ok
     /\ ~ProjectOutsideRoot
     /\ Len(ProjectBinaries(CanonProject.path)) > 1)
        => /\ result # "ok"
           /\ Events("image_build") = {}
           /\ Events("container_run") = {}

\* C9: whenever Builder::run returns Ok, target/latest-<mode> is a symbolic
\* link that resolves to exactly BuilderOutput.real, whatever was there
\* before.
C9_LatestResolvesToReal ==
    (RunReturned /\ result = "ok") =>
        LET latest == symlink_path_of(join(CanonProject.path, "target"),
                                      builder.mode)
        IN  /\ output.symlink = latest
            /\ entry(fs, latest).kind = "link"
            /\ canonicalize(fs, latest) = [ok |-> TRUE, path |-> output.real]
            /\ entry(fs, output.real).kind = "file"

C9_Witness ==
    /\ RunReturned /\ result = "ok"
    /\ latest_before.kind = "link"
    /\ latest_before.target # output.real

\* C10: the steps image build, container run, packaging, pointer update
\* happen in this order, each at most once, and a step starts only when
\* everything run before it has succeeded.
C10_StepOrder ==
    /\ Len(StepTrace) <= Len(StepNames)
    /\ \A k \in DOMAIN StepTrace : StepTrace[k].ev = StepNames[k]
    /\ \A i \in DOMAIN trace :
          IsStep(trace[i]) => \A j \in 1..(i - 1) : trace[j].ok

C10_Witness ==
    /\ RunReturned /\ result = "ok"
    /\ Len(StepTrace) = Len(StepNames)

\* C11: the image build, container run and strip commands are each invoked
\* at most once in a run, and a non-zero exit of any of them makes the run
\* return an error.
C11_NoRetries ==
    \A name \in {"image_build", "container_run", "strip"} :
        /\ Cardinality(Events(name)) <= 1
        /\ Happened(name, FALSE)
              => /\ pc \in {"c_drop", "c_return", "done"}
                 /\ RunReturned => result \notin {"ok", "none"}

C11_Witness ==
    /\ RunReturned
    /\ Happened("image_build", TRUE)
    /\ Happened("container_run", TRUE)
    /\ Happened("strip", FALSE)

\* C14: of two consecutive successful builds, the second has the artifact
\* path of the first when the built binary and the UTC date are the same, and
\* in every case target/latest-<mode> resolves to the artifact of the second.
C14_Idempotence ==
    (RunReturned /\ result = "ok" /\ previous.ok) =>
        /\ (loc.bin_contents = previous.contents /\ clock = previous.date)
              => output.real = previous.real
        /\ canonicalize(fs, symlink_path_of(loc.target_dir, builder.mode))
              = [ok |-> TRUE, path |-> output.real]

C14_Witness ==
    /\ RunReturned /\ result = "ok" /\ previous.ok
    /\ loc.bin_contents = previous.contents
    /\ clock = previous.date
    /\ output.real = previous.real

\* C15: when creating the symbolic link fails, Builder::run returns an error
\* although the newly named artifact file has been written and stays on disk.
C15_ArtifactStaysWhenLinkFails ==
    Happened("symlink", FALSE) =>
        /\ RunReturned
        /\ result = "failed to create symlink"
        /\ loc.out_path # NoPath
        /\ entry(fs, loc.out_path).kind = "file"

C15_Witness ==
    /\ RunReturned
    /\ Happened("symlink", FALSE)
    /\ entry(fs, loc.out_path).kind = "file"

\* C16: a failure to remove the previous latest-<mode> entry is never an
\* error of its own: the pointer step succeeds exactly when the new symbolic
\* link is created, and its only error is that of the link creation.
C16_RemoveIsBestEffort ==
    \A i \in Events("symlink") :
        /\ RunReturned
        /\ trace[i].ok <=> result = "ok"
        /\ trace[i].ok =>
              entry(fs, symlink_path_of(loc.target_dir, builder.mode))
                  = Link(loc.out_path)
        /\ ~trace[i].ok => result = "failed to create symlink"
        /\ (trace[i].by = "remove failed" /\ latest_before.kind = "absent")
              => (trace[i].ok \/ result = "failed to create symlink")

C16_Witness ==
    /\ RunReturned /\ result = "ok"
    /\ \E i \in Events("symlink") : trace[i].by = "remove failed"

\* the binary target Builder::run builds: the one asked for, else the only
\* one of the project
SelectedBin ==
    IF builder.bin # None THEN builder.bin
    ELSE ProjectBinaries(CanonProject.path)[1]

FileName(path) == path[Len(path)]

HasNoDot(str) == \A i \in 1..Len(str) : SubSeq(str, i, i) # "."

\* Path::extension is "zip"
HasZipExtension(str) ==
    /\ Len(str) > 4
    /\ SubSeq(str, Len(str) - 3, Len(str)) = ".zip"
    /\ HasNoDot(SubSeq(str, 1, Len(str) - 4))

C22_SymlinkAtCallerPath ==
    (RunReturned /\ result = "ok")
        => output.symlink
             = join(join(builder.project_path, "target"),
                    "latest-" \o BuildMode_name(builder.mode))

\* the run command of the current Builder::run has been issued
RunIssued == Events("container_run") # {}

Mount(v) == <<v.src, v.dst, v.read_write>>

OutputDir == join(join(CanonProject.path, "target"), "aws-build")

\* C23: every container run is issued with auto-remove, an init process, the
\* invoking user, and exactly four mounts in this order: code root at /code
\* read-only, <mode>-cargo-registry at /cargo/registry, <mode>-cargo-git at
\* /cargo/git and the output directory at /code/target, the last three
\* read-write; the code root is never mounted writable.
C23_RunOptions ==
    RunIssued
        => LET o == loc.run_opt
               m == BuildMode_name(builder.mode)
           IN  /\ o.remove /\ o.init /\ o.user = "current"
               /\ Len(o.volumes) = 4
               /\ Mount(o.volumes[1]) = <<CanonRoot.path, <<"code">>, FALSE>>
               /\ Mount(o.volumes[2])
                    = <<join(OutputDir, m \o "-cargo-registry"),
                        <<"cargo", "registry">>, TRUE>>
               /\ Mount(o.volumes[3])
                    = <<join(OutputDir, m \o "-cargo-git"),
                        <<"cargo", "git">>, TRUE>>
               /\ Mount(o.volumes[4])
                    = <<OutputDir, <<"code", "target">>, TRUE>>
               /\ \A k \in DOMAIN o.volumes :
                     o.volumes[k].src = CanonRoot.path
                        => ~o.volumes[k].read_write

C23_Witness ==
    /\ Happened("container_run", TRUE)
    /\ builder.podman
    /\ builder.mode = "Lambda"
    /\ Len(loc.run_opt.volumes) = 4

\* C24: all mounts of a run carry the same option list: [z] for
\* Relabel::Shared, [Z] for Relabel::Unshared, empty without a relabel; no
\* mount carries both z and Z.
C24_RelabelUniform ==
    RunIssued
        => \A k \in DOMAIN loc.run_opt.volumes :
              LET opts == loc.run_opt.volumes[k].options
              IN  /\ builder.relabel = "Shared" => opts = <<"z">>
                  /\ builder.relabel = "Unshared" => opts = <<"Z">>
                  /\ builder.relabel = None => opts = <<>>
                  /\ ~(/\ \E i \in DOMAIN opts : opts[i] = "z"
                       /\ \E i \in DOMAIN opts : opts[i] = "Z")

C24_Witness ==
    /\ Happened("container_run", TRUE)
    /\ builder.relabel = "Unshared"
    /\ Len(loc.run_opt.volumes) = 4

\* C25: the container is given TARGET_DIR=/code/target/<mode> and
\* BIN_TARGET=<bin>, and the path Container::run returns,
\* <output-dir>/<mode>/release/<bin>, is the host path that the container
\* path TARGET_DIR/release/BIN_TARGET stands for under the mounts of the run.
C25_BinPathConvention ==
    (pc = "strip" /\ ret = "ok")
        => LET env == loc.run_opt.env
               m == BuildMode_name(builder.mode)
           IN  /\ env.TARGET_DIR = <<"code", "target", m>>
               /\ env.BIN_TARGET = SelectedBin
               /\ loc.bin_path
                    = join(join(join(OutputDir, m), "release"), SelectedBin)
               /\ loc.bin_path
                    = host_image(loc.run_opt.volumes,
                                 join(join(env.TARGET_DIR, "release"),
                                      env.BIN_TARGET))

C25_Witness ==
    /\ pc = "strip" /\ ret = "ok"
    /\ builder.mode = "Lambda"
    /\ builder.bin = "proj"
    /\ entry(fs, loc.bin_path).kind = "file"

\* C26: the image tag is aws-build-<mode>-<rust_version>, the same for a
\* Builder with that mode and rust version whatever its other fields and
\* different for a different mode, and the run command is given the tag the image build
\* command of the same invocation was given.
C26_ImageTag ==
    RunIssued
        => /\ loc.build_opt.tag
                = "aws-build-" \o BuildMode_name(builder.mode) \o "-"
                     \o builder.rust_version
           /\ loc.run_opt.image = loc.build_opt.tag
           /\ \A m \in BuildModes, path \in ProjectPaths :
                 LET b == [builder EXCEPT !.mode = m,
                                          !.project_path = path,
                                          !.strip = ~builder.strip]
                 IN  /\ m = builder.mode
                           => image_tag_of(b) = loc.build_opt.tag
                     /\ m # builder.mode
                           => image_tag_of(b) # loc.build_opt.tag

C26_Witness ==
    /\ Happened("container_run", TRUE)
    /\ builder.rust_version = "1.45.2"
    /\ Happened("image_build", TRUE)

LatestPath ==
    symlink_path_of(join(CanonProject.path, "target"), builder.mode)

CacheDirs ==
    { OutputDir,
      join(OutputDir, BuildMode_name(builder.mode) \o "-cargo-registry"),
      join(OutputDir, BuildMode_name(builder.mode) \o "-cargo-git") }

\* C28: over any sequence of builds, no step of Builder::run removes an
\* entry of the filesystem other than target/latest-<mode> of its own mode,
\* and target/aws-build, <mode>-cargo-registry and <mode>-cargo-git, once
\* they are directories, are directories after every later step.
C28_CachesNeverDeleted ==
    [][/\ \A p \in DOMAIN fs : p \notin DOMAIN fs' => p = LatestPath
       /\ \A p \in CacheDirs :
             entry(fs, p).kind = "dir" => entry(fs', p).kind = "dir"]_vars

C28_Witness ==
    /\ runs = 2
    /\ RunReturned /\ result = "failed to create symlink"
    /\ latest_before.kind = "link"
    /\ entry(fs, LatestPath).kind = "absent"
    /\ \A p \in CacheDirs : entry(fs, p).kind = "dir"

\* the binary targets cargo metadata reports for the project
Discovered == ProjectBinaries(CanonProject.path)

\* Builder::run has gone past the selection of the binary target
SelectionMade ==
    Happened("cargo_metadata", TRUE) /\ pc # "select_bin"

\* C31: an explicit bin is used as it is, whether or not it is among the
\* discovered targets; without one the only discovered target is used; and
\* without one and with no or several discovered targets the run fails and
\* no container run is started.
C31_BinSelection ==
    SelectionMade
        => /\ builder.bin # None
                => /\ loc.bin = builder.bin
                   /\ RunIssued => loc.run_opt.env.BIN_TARGET = builder.bin
           /\ (builder.bin = None /\ Len(Discovered) = 1)
                => /\ loc.bin = Discovered[1]
                   /\ RunIssued => loc.run_opt.env.BIN_TARGET = Discovered[1]
           /\ (builder.bin = None /\ Len(Discovered) # 1)
                => /\ RunReturned
                   /\ result
                        = "must specify bin target when package has more than one"
                   /\ ~RunIssued

C31_Witness ==
    /\ RunReturned /\ result = "ok"
    /\ builder.bin = "proj"
    /\ \A k \in DOMAIN Discovered : Discovered[k] # "proj"
    /\ loc.run_opt.env.BIN_TARGET = "proj"

\* C32: strip is run exactly when the strip flag is set, in both modes,
\* after the container run has succeeded and before the binary is read; when
\* it fails the run fails, no artifact is written and the pointer is as it
\* was.
C32_StripStep ==
    /\ Events("strip") # {} => builder.strip
    /\ pc = "strip"
          => /\ Happened("container_run", TRUE)
             /\ Events("strip") = {}
             /\ loc.bin_contents = ""
    /\ (loc.bin_path # NoPath /\ pc # "strip")
          => /\ Cardinality(Events("strip")) = IF builder.strip THEN 1 ELSE 0
             /\ \A i \in Events("strip"), j \in DOMAIN trace :
                   /\ trace[j].ev = "container_run" => j < i
                   /\ trace[j].ev \in {"package", "symlink"} => i < j
    /\ Happened("strip", FALSE)
          => /\ RunReturned /\ result = "strip failed"
             /\ loc.bin_contents = ""
             /\ Events("package") = {} /\ Events("symlink") = {}
             /\ loc.out_path = NoPath
             /\ entry(fs, LatestPath) = latest_before

C32_Witness ==
    /\ RunReturned /\ Happened("strip", FALSE)
    /\ builder.mode = "Lambda"
    /\ runs = 2
    /\ latest_before.kind = "link"

\* the bytes a finished artifact holds for the binary now on disk
FinishedArtifact ==
    LET bin == entry(fs, built_bin_path(OutputDir, builder.mode,
                                        SelectedBin)).data
    IN  IF builder.mode = "Lambda" THEN Zip(bin) ELSE bin

\* C33: the link is created only after the artifact is complete: every
\* symlink step follows a successful package step of the same run, a failed
\* or unfinished write ends the run without a symlink step, and when the run
\* has created the link the artifact it names holds the finished zip (one
\* entry bootstrap, mode 0755) in Lambda mode and the copied binary in
\* AmazonLinux2 mode.
C33_PointerAfterArtifact ==
    /\ \A i \in Events("symlink") :
          \E j \in Events("package") : j < i /\ trace[j].ok
    /\ Happened("package", FALSE)
          => /\ RunReturned /\ result = "failed to write"
             /\ Events("symlink") = {}
             /\ entry(fs, LatestPath) = latest_before
    /\ (RunReturned /\ Happened("symlink", TRUE))
          => /\ entry(fs, LatestPath) = Link(output.real)
             /\ entry(fs, output.real) = File(FinishedArtifact)

C33_Witness ==
    /\ RunReturned /\ Happened("symlink", TRUE)
    /\ builder.mode = "Lambda"
    /\ runs = 2
    /\ previous = NoPrevious
    /\ latest_before.kind = "absent"
    /\ entry(fs, output.real) = File(Zip("testcontents"))

\* C34: no step of Builder::run before the pointer update touches
\* target/latest-<mode>: whatever step the run fails at (path check,
\* directory creation, image build, binary selection, acquire, container
\* run, release, strip, read, write of the artifact), the entry is what it
\* was before the build.
C34_FailureLeavesPointer ==
    [][pc # "symlink"
          => \A m \in BuildModes :
                entry(fs', symlink_path_of(join(CanonProject.path, "target"),
                                           m))
                  = entry(fs, symlink_path_of(join(CanonProject.path,
                                                   "target"), m))]_vars

C34_Witness ==
    /\ runs = 2
    /\ RunReturned /\ result = "failed to write"
    /\ latest_before.kind = "link"
    /\ entry(fs, LatestPath) = latest_before
    /\ entry(fs, latest_before.target).data
          = Unfinished(FinishedArtifact)

\* the bytes of the single entry of a zip archive
Unzip(z) == SubSeq(z, Len(Zip("")) + 1, Len(z))

\* the bytes an artifact packages
PackagedBytes(data) == IF builder.mode = "Lambda" THEN Unzip(data) ELSE data

\* the content hash field of an artifact's file name
HashField(file_name) ==
    LET stem == IF builder.mode = "Lambda"
                THEN SubSeq(file_name, 1, Len(file_name) - 4)
                ELSE file_name
    IN  SubSeq(stem, Len(stem) - 15, Len(stem))

\* C35: after a successful run the hash in the artifact's name is the hash
\* of the bytes the artifact packages, the zip entry in Lambda mode and the
\* copied file in AmazonLinux2 mode, and with the strip flag those are the
\* stripped bytes.
C35_HashOfPackagedBytes ==
    (RunReturned /\ result = "ok")
        => LET bytes == PackagedBytes(entry(fs, output.real).data)
           IN  /\ HashField(FileName(output.real)) = Hex16(Sha256Hex(bytes))
               /\ builder.strip
                     => \E c \in Contents : bytes = Stripped(c)
               /\ ~builder.strip => bytes \in Contents

C35_Witness ==
    /\ RunReturned /\ result = "ok"
    /\ builder.strip
    /\ builder.mode = "AmazonLinux2"
    /\ previous.ok
    /\ previous.contents # loc.bin_contents

HostSteps == {"strip", "package", "symlink"}

\* Builder::run is at or past the first host-side step after the container
AfterContainer ==
    \/ pc \in {"strip", "read", "package", "symlink"}
    \/ loc.bin_path # NoPath

\* C36: with podman, strip, the read of the binary, the write of the
\* artifact and the pointer update happen only after the explicit release
\* has succeeded, and after a failed explicit release none of them happens.
C36_HostStepsAfterRelease ==
    builder.podman
        => /\ AfterContainer
                => /\ ReleasedBy("explicit", TRUE)
                   /\ \A i \in Events("chown_release"), j \in DOMAIN trace :
                         trace[j].ev \in HostSteps => i < j
           /\ ReleasedBy("explicit", FALSE)
                => /\ ~AfterContainer
                   /\ loc.bin_contents = ""
                   /\ \A j \in DOMAIN trace : trace[j].ev \notin HostSteps
                   /\ RunReturned => result = "container run failed"

C36_Witness ==
    /\ builder.podman /\ builder.strip
    /\ RunReturned
    /\ ReleasedBy("explicit", FALSE)
    /\ ReleasedBy("drop", TRUE)

\* C37: the source of every read-write mount of a run is the output
\* directory or a direct child of it, and with podman the directory whose
\* tree acquire and release re-own is the output directory, so that tree
\* holds every host path the container can write.
C37_WritableMountsCovered ==
    RunIssued
        => /\ \A k \in DOMAIN loc.run_opt.volumes :
                 loc.run_opt.volumes[k].read_write
                    => \/ loc.run_opt.volumes[k].src = OutputDir
                       \/ parent(loc.run_opt.volumes[k].src) = OutputDir
           /\ builder.podman
                 => /\ guard.dir = OutputDir
                    /\ \A k \in DOMAIN loc.run_opt.volumes :
                          loc.run_opt.volumes[k].read_write
                             => starts_with(loc.run_opt.volumes[k].src,
                                            guard.dir)

C37_Witness ==
    /\ builder.podman
    /\ Happened("container_run", TRUE)
    /\ guard.some
    /\ guard.dir = <<"r", "p", "target", "aws-build">>
    /\ builder.code_root = <<"r">>

\* Builder::run is executing
Running == pc \notin {"idle", "done"}

\* C38: every started Builder::run returns, with both output paths when the
\* result is Ok and with an error otherwise.
C38_Terminates ==
    Running
        ~> /\ RunReturned
           /\ result # "none"
           /\ result = "ok"
                 => (output.real # NoPath /\ output.symlink # NoPath)

C38_Witness ==
    /\ RunReturned
    /\ runs = 2
    /\ result = "ok"
    /\ output.real # NoPath /\ output.symlink # NoPath
    /\ builder.podman /\ builder.strip

----------------------------------------------------------------------------
(* The naming functions on their own: make_unique_name and make_zip_name are
   applied to two (contents, date) pairs for one mode and binary name. *)

\* calendar dates a Date can hold, among them the test's date and years of
\* fewer than four digits
NameDates ==
    { [year |-> 999, month |-> 12, day |-> 31],
      [year |-> 1000, month |-> 1, day |-> 1],
      [year |-> 2020, month |-> 8, day |-> 31],
      [year |-> 2020, month |-> 9, day |-> 1],
      [year |-> 2020, month |-> 12, day |-> 5] }

BinNames == {"testexecutable", "proj"}

DefaultBuilder ==
    [ rust_version |-> DEFAULT_RUST_VERSION, mode |-> "AmazonLinux2",
      bin |-> None, strip |-> FALSE, podman |-> FALSE, relabel |-> None,
      code_root |-> <<"r">>, project_path |-> <<"r", "p">> ]

\* everything that belongs to a single followed Builder::run, at rest
SingleRunAtRest ==
    /\ builder = DefaultBuilder
    /\ fs = InitFs
    /\ clock = 1
    /\ runs = 0
    /\ pc = "idle"
    /\ loc = NoLoc
    /\ guard = NoGuard
    /\ ret = "none"
    /\ result = "none"
    /\ output = NoOutput
    /\ logged = <<>>
    /\ trace = <<>>
    /\ latest_before = Absent
    /\ previous = NoPrevious

InitNames ==
    /\ SingleRunAtRest
    /\ conc = NoConc
    /\ nm \in [ mode : BuildModes, name : BinNames,
                contents1 : Contents, when1 : NameDates,
                contents2 : Contents, when2 : NameDates,
                applied : {FALSE}, out1 : {""}, out2 : {""}, zip1 : {""} ]

Names_apply ==
    /\ ~nm.applied
    /\ nm' = [nm EXCEPT
                !.applied = TRUE,
                !.out1 = make_unique_name(nm.mode, nm.name, nm.contents1,
                                          nm.when1),
                !.out2 = make_unique_name(nm.mode, nm.name, nm.contents2,
                                          nm.when2),
                !.zip1 = make_zip_name(nm.name, nm.contents1, nm.when1)]
    /\ UNCHANGED <<previous, conc, builder, fs, clock, runs, pc, loc, guard,
                   ret, result, output, logged, trace, latest_before>>

NextNames == Names_apply

SpecNames == InitNames /\ [][NextNames]_vars

(* Vocabulary: characters of a string, numbers written in digits, orders *)

CharAt(str, i) == SubSeq(str, i, i)

DigitChars == "0123456789"

HexChars == "0123456789abcdef"

\* the characters that occur in names, in ASCII order
AsciiOrder == "-.0123456789abcdefghijklmnopqrstuvwxyz"

IndexIn(alphabet, c) ==
    CHOOSE i \in 0..Len(alphabet) :
        IF \E k \in 1..Len(alphabet) : CharAt(alphabet, k) = c
        THEN i > 0 /\ CharAt(alphabet, i) = c
        ELSE i = 0

AllIn(str, alphabet) ==
    \A i \in 1..Len(str) : IndexIn(alphabet, CharAt(str, i)) > 0

RECURSIVE Number(_)
Number(str) ==
    IF Len(str) = 0 THEN 0
    ELSE 10 * Number(SubSeq(str, 1, Len(str) - 1))
         + (IndexIn(DigitChars, CharAt(str, Len(str))) - 1)

\* str1 < str2 in the lexicographic order of their characters
LexLess(str1, str2) ==
    \E k \in 0..Len(str1) :
        /\ k <= Len(str2)
        /\ SubSeq(str1, 1, k) = SubSeq(str2, 1, k)
        /\ \/ k = Len(str1) /\ k < Len(str2)
           \/ /\ k < Len(str1) /\ k < Len(str2)
              /\ IndexIn(AsciiOrder, CharAt(str1, k + 1))
                    < IndexIn(AsciiOrder, CharAt(str2, k + 1))

DateLess(d1, d2) ==
    \/ d1.year < d2.year
    \/ d1.year = d2.year /\ d1.month < d2.month
    \/ d1.year = d2.year /\ d1.month = d2.month /\ d1.day < d2.day

\* <mode>-<name>-<YYYYMMDD>-<16 hex characters of the digest of contents>
NameWellFormed(out, mode, name, contents, when) ==
    LET prefix == BuildMode_name(mode) \o "-" \o name \o "-"
        n == Len(prefix)
    IN  /\ Len(out) = n + 8 + 1 + 16
        /\ SubSeq(out, 1, n) = prefix
        /\ AllIn(SubSeq(out, n + 1, n + 8), DigitChars)
        /\ Number(SubSeq(out, n + 1, n + 4)) = when.year
        /\ Number(SubSeq(out, n + 5, n + 6)) = when.month
        /\ Number(SubSeq(out, n + 7, n + 8)) = when.day
        /\ CharAt(out, n + 9) = "-"
        /\ AllIn(SubSeq(out, n + 10, n + 25), HexChars)
        /\ SubSeq(out, n + 10, n + 25) = SubSeq(Sha256Hex(contents), 1, 16)

C20_NamingVariantsAgree ==
    (nm.applied /\ nm.mode = "Lambda")
        => nm.out1 \o ".zip" = "lambda-" \o nm.zip1

C20_Witness ==
    /\ nm.applied
    /\ nm.out1 = "lambda-testexecutable-20200831-7097a82a108e78da"
    /\ nm.zip1 = "testexecutable-20200831-7097a82a108e78da.zip"

----------------------------------------------------------------------------
(* Two Builder::run invocations side by side, as two unrelated processes on
   one host with one container runtime.  Every external command and every
   filesystem call succeeds unless the other invocation is in its way, so a
   result other than Ok is the other invocation's doing.  conc holds:
     podman   whether the launcher is podman (rootless)
     cfg      the two Builders
     st       per invocation: position, result, locals
     images   the runtime's image store: tag -> build arguments
     owner    who owns each entry below an output directory
     last     the invocation that took the last step and the paths it
              created, wrote, removed or re-owned                        *)

Procs == {1, 2}

Other(i) == IF i = 1 THEN 2 ELSE 1

ConcProjects ==
    { [project_path |-> <<"r", "p">>, code_root |-> <<"r">>],
      [project_path |-> <<"q">>, code_root |-> <<"q">>] }

ConcBuilders ==
    { [ rust_version |-> DEFAULT_RUST_VERSION, mode |-> m, bin |-> None,
        strip |-> FALSE, code_root |-> pr.code_root,
        project_path |-> pr.project_path ] :
      m \in BuildModes, pr \in ConcProjects }

\* lib.rs 500-511: the build arguments of the image build command
build_args(b) ==
    [ FROM_IMAGE |-> from_image(b.mode),
      RUST_VERSION |-> b.rust_version,
      DEV_PKGS |-> "",
      PROJECT_PATH |-> strip_prefix(b.project_path, b.code_root).rel ]

NoArgs ==
    [ FROM_IMAGE |-> "", RUST_VERSION |-> "", DEV_PKGS |-> "",
      PROJECT_PATH |-> NoPath ]

ConcTags == { image_tag_of(b) : b \in ConcBuilders }

target_dir_of(b) == join(b.project_path, "target")

output_dir_of(b) == join(target_dir_of(b), "aws-build")

mode_dir_of(b) == join(output_dir_of(b), BuildMode_name(b.mode))

registry_dir_of(b) ==
    join(output_dir_of(b), BuildMode_name(b.mode) \o "-cargo-registry")

git_dir_of(b) ==
    join(output_dir_of(b), BuildMode_name(b.mode) \o "-cargo-git")

bin_of(b) == ProjectBinaries(b.project_path)[1]

StartSt ==
    [ pc |-> "start", result |-> "none", image_args |-> NoArgs,
      acquired |-> FALSE, out_path |-> NoPath ]

NoLast == [proc |-> 0, kind |-> "", paths |-> {}]

InitConc ==
    /\ SingleRunAtRest
    /\ nm = NoNames
    /\ \E pod \in BOOLEAN, c \in [Procs -> ConcBuilders] :
         /\ c[1] # c[2]
         /\ conc = [ podman |-> pod, cfg |-> c,
                     st |-> [i \in Procs |-> StartSt],
                     images |-> [t \in ConcTags |-> NoArgs],
                     owner |-> <<>>,
                     last |-> NoLast ]

owner_of(p) == IF p \in DOMAIN conc.owner THEN conc.owner[p] ELSE "host"

\* who may create or replace an entry at p: the owner of its directory
may_write(who, p) == owner_of(parent(p)) = who

\* the owners after `who` created the entries that f2 has and f1 lacks
owned_new(f1, f2, who) ==
    [p \in (DOMAIN conc.owner) \cup ((DOMAIN f2) \ (DOMAIN f1)) |->
        IF p \in DOMAIN f1 /\ p \in DOMAIN conc.owner THEN conc.owner[p]
        ELSE who]

below(f, dir) == {p \in DOMAIN f : starts_with(p, dir)}

\* podman unshare chown --recursive <who> dir
chown_recursive(dir, who) ==
    [p \in (DOMAIN conc.owner) \cup below(fs, dir) |->
        IF starts_with(p, dir) THEN who ELSE conc.owner[p]]

\* the user the container's processes run as (-u uid:gid): under rootless
\* podman a user of the namespace, otherwise the invoking user
container_user == IF conc.podman THEN "container" ELSE "host"

ConcFail(i, err) ==
    [conc.st[i] EXCEPT !.pc = "done", !.result = err]

\* lib.rs 375-383
Conc_ensure_target(i) ==
    /\ conc.st[i].pc = "start"
    /\ LET dir == target_dir_of(conc.cfg[i])
           r == ensure_dir_exists(fs, dir, may_write("host", dir))
       IN  /\ fs' = r.fs
           /\ conc' = [conc EXCEPT
                  !.st[i] = IF r.ok THEN [@ EXCEPT !.pc = "output"]
                            ELSE ConcFail(i, "failed to create directory"),
                  !.owner = owned_new(fs, r.fs, "host"),
                  !.last = [proc |-> i, kind |-> "create_dir",
                            paths |-> (DOMAIN r.fs) \ (DOMAIN fs)]]
    /\ UNCHANGED <<previous, nm, builder, clock, runs, pc, loc, guard, ret,
                   result, output, logged, trace, latest_before>>

\* lib.rs 385-386
Conc_ensure_output(i) ==
    /\ conc.st[i].pc = "output"
    /\ LET dir == output_dir_of(conc.cfg[i])
           r == ensure_dir_exists(fs, dir, may_write("host", dir))
       IN  /\ fs' = r.fs
           /\ conc' = [conc EXCEPT
                  !.st[i] = IF r.ok THEN [@ EXCEPT !.pc = "image"]
                            ELSE ConcFail(i, "failed to create directory"),
                  !.owner = owned_new(fs, r.fs, "host"),
                  !.last = [proc |-> i, kind |-> "create_dir",
                            paths |-> (DOMAIN r.fs) \ (DOMAIN fs)]]
    /\ UNCHANGED <<previous, nm, builder, clock, runs, pc, loc, guard, ret,
                   result, output, logged, trace, latest_before>>

\* lib.rs 388-404: the image build command tags the image it builds; cargo
\* metadata and the choice of the binary target touch nothing shared
Conc_build_container(i) ==
    /\ conc.st[i].pc = "image"
    /\ conc' = [conc EXCEPT
           !.st[i] = [@ EXCEPT !.pc = "cache"],
           !.images = [@ EXCEPT ![image_tag_of(conc.cfg[i])] =
                          build_args(conc.cfg[i])],
           !.last = [proc |-> i, kind |-> "image_build", paths |-> {}]]
    /\ UNCHANGED <<previous, nm, builder, fs, clock, runs, pc, loc, guard,
                   ret, result, output, logged, trace, latest_before>>

\* lib.rs 176-181
Conc_cache_dirs(i) ==
    /\ conc.st[i].pc = "cache"
    /\ LET reg == registry_dir_of(conc.cfg[i])
           git == git_dir_of(conc.cfg[i])
           r1 == ensure_dir_exists(fs, reg, may_write("host", reg))
           r2 == IF r1.ok
                 THEN ensure_dir_exists(r1.fs, git, may_write("host", git))
                 ELSE r1
       IN  /\ fs' = r2.fs
           /\ conc' = [conc EXCEPT
                  !.st[i] = IF r2.ok THEN [@ EXCEPT !.pc = "acquire"]
                            ELSE ConcFail(i, "container run failed"),
                  !.owner = owned_new(fs, r2.fs, "host"),
                  !.last = [proc |-> i, kind |-> "create_dir",
                            paths |-> (DOMAIN r2.fs) \ (DOMAIN fs)]]
    /\ UNCHANGED <<previous, nm, builder, clock, runs, pc, loc, guard, ret,
                   result, output, logged, trace, latest_before>>

\* lib.rs 183-196
Conc_acquire(i) ==
    /\ conc.st[i].pc = "acquire"
    /\ LET dir == output_dir_of(conc.cfg[i])
       IN  conc' = IF conc.podman
                   THEN [conc EXCEPT
                           !.st[i] = [@ EXCEPT !.pc = "run",
                                               !.acquired = TRUE],
                           !.owner = chown_recursive(dir, "container"),
                           !.last = [proc |-> i, kind |-> "chown",
                                     paths |-> below(fs, dir)]]
                   ELSE [conc EXCEPT
                           !.st[i] = [@ EXCEPT !.pc = "run"],
                           !.last = [proc |-> i, kind |-> "", paths |-> {}]]
    /\ UNCHANGED <<previous, nm, builder, fs, clock, runs, pc, loc, guard,
                   ret, result, output, logged, trace, latest_before>>

\* lib.rs 204-248: the run command starts a container from the image that
\* carries the tag at that moment
Conc_container_start(i) ==
    /\ conc.st[i].pc = "run"
    /\ conc' = [conc EXCEPT
           !.st[i] = [@ EXCEPT
                        !.pc = "running",
                        !.image_args =
                            conc.images[image_tag_of(conc.cfg[i])]],
           !.last = [proc |-> i, kind |-> "container_run", paths |-> {}]]
    /\ UNCHANGED <<previous, nm, builder, fs, clock, runs, pc, loc, guard,
                   ret, result, output, logged, trace, latest_before>>

\* the build script writes TARGET_DIR/release/BIN_TARGET and the command
\* exits; it fails when the container's user may not write there
Conc_container_exit(i) ==
    /\ conc.st[i].pc = "running"
    /\ LET b == conc.cfg[i]
           mode_dir == mode_dir_of(b)
           allowed == /\ may_write(container_user, mode_dir)
                      /\ \A p \in below(fs, mode_dir) :
                            owner_of(p) = container_user
           f1 == fs_put(fs, mode_dir, Dir)
           f2 == fs_put(f1, join(mode_dir, "release"), Dir)
           f3 == fs_put(f2, built_bin_path(output_dir_of(b), b.mode,
                                           bin_of(b)),
                        File("testcontents"))
       IN  IF allowed
           THEN /\ fs' = f3
                /\ conc' = [conc EXCEPT
                       !.st[i] = [@ EXCEPT !.pc = "release"],
                       !.owner = owned_new(fs, f3, container_user),
                       !.last = [proc |-> i, kind |-> "write",
                                 paths |-> below(f3, mode_dir)]]
           ELSE /\ fs' = fs
                /\ conc' = [conc EXCEPT
                       !.st[i] = [@ EXCEPT
                                    !.pc = "release",
                                    !.result = "container run failed"],
                       !.last = [proc |-> i, kind |-> "", paths |-> {}]]
    /\ UNCHANGED <<previous, nm, builder, clock, runs, pc, loc, guard, ret,
                   result, output, logged, trace, latest_before>>

\* lib.rs 147-153 and 250-254: the release, made explicitly after a
\* successful container run and by Drop after a failed one
Conc_release(i) ==
    /\ conc.st[i].pc = "release"
    /\ LET dir == output_dir_of(conc.cfg[i])
           next_pc == IF conc.st[i].result = "none" THEN "package"
                                                    ELSE "done"
       IN  conc' = IF conc.st[i].acquired
                   THEN [conc EXCEPT
                           !.st[i] = [@ EXCEPT !.pc = next_pc,
                                               !.acquired = FALSE],
                           !.owner = chown_recursive(dir, "host"),
                           !.last = [proc |-> i, kind |-> "chown",
                                     paths |-> below(fs, dir)]]
                   ELSE [conc EXCEPT
                           !.st[i] = [@ EXCEPT !.pc = next_pc],
                           !.last = [proc |-> i, kind |-> "", paths |-> {}]]
    /\ UNCHANGED <<previous, nm, builder, fs, clock, runs, pc, loc, guard,
                   ret, result, output, logged, trace, latest_before>>

\* lib.rs 423-465
Conc_package(i) ==
    /\ conc.st[i].pc = "package"
    /\ LET b == conc.cfg[i]
           bin_path == built_bin_path(output_dir_of(b), b.mode, bin_of(b))
           contents == entry(fs, bin_path).data
           name == make_unique_name(b.mode, bin_of(b), contents,
                                    Dates[clock])
           out_path == IF b.mode = "AmazonLinux2"
                       THEN join(mode_dir_of(b), name)
                       ELSE join(mode_dir_of(b), name \o ".zip")
           data == IF b.mode = "AmazonLinux2" THEN contents
                                              ELSE Zip(contents)
           f1 == fs_put(fs, out_path, File(data))
       IN  IF may_write("host", out_path)
           THEN /\ fs' = f1
                /\ conc' = [conc EXCEPT
                       !.st[i] = [@ EXCEPT !.pc = "symlink",
                                           !.out_path = out_path],
                       !.owner = owned_new(fs, f1, "host"),
                       !.last = [proc |-> i, kind |-> "write",
                                 paths |-> {out_path}]]
           ELSE /\ fs' = fs
                /\ conc' = [conc EXCEPT
                       !.st[i] = ConcFail(i, "failed to write"),
                       !.last = [proc |-> i, kind |-> "", paths |-> {}]]
    /\ UNCHANGED <<previous, nm, builder, clock, runs, pc, loc, guard, ret,
                   result, output, logged, trace, latest_before>>

\* lib.rs 467-480
Conc_symlink(i) ==
    /\ conc.st[i].pc = "symlink"
    /\ LET b == conc.cfg[i]
           symlink_path == symlink_path_of(target_dir_of(b), b.mode)
           f1 == remove_file(fs, symlink_path, TRUE)
           f2 == fs_put(f1, symlink_path, Link(conc.st[i].out_path))
       IN  /\ fs' = f2
           /\ conc' = [conc EXCEPT
                  !.st[i] = [@ EXCEPT !.pc = "done", !.result = "ok"],
                  !.last = [proc |-> i, kind |-> "write",
                            paths |-> {symlink_path}]]
    /\ UNCHANGED <<previous, nm, builder, clock, runs, pc, loc, guard, ret,
                   result, output, logged, trace, latest_before>>

NextConc ==
    \/ \E i \in Procs : Conc_ensure_target(i)
    \/ \E i \in Procs : Conc_ensure_output(i)
    \/ \E i \in Procs : Conc_build_container(i)
    \/ \E i \in Procs : Conc_cache_dirs(i)
    \/ \E i \in Procs : Conc_acquire(i)
    \/ \E i \in Procs : Conc_container_start(i)
    \/ \E i \in Procs : Conc_container_exit(i)
    \/ \E i \in Procs : Conc_release(i)
    \/ \E i \in Procs : Conc_package(i)
    \/ \E i \in Procs : Conc_symlink(i)

SpecConc == InitConc /\ [][NextConc]_vars

\* the paths invocation i uses
UsesPath(i, p) ==
    LET b == conc.cfg[i]
    IN  \/ p \in { target_dir_of(b), output_dir_of(b), registry_dir_of(b),
                   git_dir_of(b),
                   symlink_path_of(target_dir_of(b), b.mode) }
        \/ starts_with(p, mode_dir_of(b))

\* C12: when two invocations build the same project in different modes,
\* no step of one writes, removes or re-owns a path the other uses, apart
\* from creating the shared target and target/aws-build directories, and
\* each ends with the result it has when run alone (Ok).
C12_DifferentModesSafe ==
    (/\ conc.cfg[1].project_path = conc.cfg[2].project_path
     /\ conc.cfg[1].mode # conc.cfg[2].mode)
        => /\ \A p \in conc.last.paths :
                 UsesPath(Other(conc.last.proc), p)
                    => /\ conc.last.kind = "create_dir"
                       /\ p \in { target_dir_of(conc.cfg[1]),
                                  output_dir_of(conc.cfg[1]) }
           /\ \A i \in Procs :
                 conc.st[i].pc = "done" => conc.st[i].result = "ok"

\* C13: when two invocations build different projects, the image each
\* container run starts from was built with that invocation's own build
\* arguments.
C13_DifferentProjectsSafe ==
    conc.cfg[1].project_path # conc.cfg[2].project_path
        => \A i \in Procs :
              conc.st[i].image_args # NoArgs
                 => conc.st[i].image_args = build_args(conc.cfg[i])

----------------------------------------------------------------------------
(* ensure_dir_exists on its own: called up to MaxCalls times on one path of
   a filesystem that holds directories, a file and symbolic links. *)

MaxCalls == 2

DirFs ==
    { [p \in { <<>>, <<"d">> } |-> Dir]
        @@ ( <<"f">> :> File("x") )
        @@ ( <<"ld">> :> Link(<<"d">>) )
        @@ ( <<"lx">> :> Link(<<"nowhere">>) )
        @@ ( <<"lf">> :> Link(<<"f">>) ),
      [p \in { <<>>, <<"d">>, <<"d", "t">> } |-> Dir]
        @@ ( <<"f">> :> File("x") )
        @@ ( <<"ld">> :> Link(<<"d">>) )
        @@ ( <<"lx">> :> Link(<<"d", "u">>) )
        @@ ( <<"lf">> :> Link(<<"f">>) ) }

DirPaths ==
    { <<"d">>, <<"d", "t">>, <<"d", "u">>, <<"f">>, <<"f", "t">>,
      <<"ld">>, <<"ld", "t">>, <<"lx">>, <<"lf">>, <<"m", "t">> }

RECURSIVE display(_)
display(path) ==
    IF path = <<>> THEN ""
    ELSE display(parent(path)) \o "/" \o path[Len(path)]

InitDirs ==
    /\ builder = DefaultBuilder
    /\ fs \in DirFs
    /\ clock = 1
    /\ runs = 0
    /\ pc = "idle"
    /\ loc = NoLoc
    /\ guard = NoGuard
    /\ ret = "none"
    /\ result = "none"
    /\ output = NoOutput
    /\ logged = <<>>
    /\ trace = <<>>
    /\ latest_before = Absent
    /\ previous = NoPrevious
    /\ conc = NoConc
    /\ nm \in [ path : DirPaths, calls : {0}, before : {<<>>},
                create_ok : {FALSE}, ok : {FALSE}, err : {""},
                prev_ok : {FALSE} ]

\* one call ensure_dir_exists(path), lib.rs 26-33
Dirs_ensure ==
    /\ nm.calls < MaxCalls
    /\ \E create_ok \in BOOLEAN :
         LET r == ensure_dir_exists(fs, nm.path, create_ok)
         IN  /\ fs' = r.fs
             /\ nm' = [nm EXCEPT
                         !.calls = @ + 1,
                         !.before = fs,
                         !.create_ok = create_ok,
                         !.ok = r.ok,
                         !.err = IF r.ok THEN ""
                                 ELSE "failed to create directory "
                                         \o display(nm.path),
                         !.prev_ok = nm.calls > 0 /\ nm.ok]
    /\ UNCHANGED <<previous, conc, builder, clock, runs, pc, loc, guard, ret,
                   result, output, logged, trace, latest_before>>

NextDirs == Dirs_ensure

SpecDirs == InitDirs /\ [][NextDirs]_vars

\* C27: a call returns Ok, changing nothing, when the path already was a
\* directory; returns Ok when it created the directory; returns an error
\* naming the path, changing nothing, when the path exists as something else
\* or the directory cannot be created; and returns Ok, changing nothing,
\* when the call before it on the same path returned Ok.
C27_EnsureDir ==
    nm.calls > 0
        => LET was_dir == is_dir(nm.before, nm.path)
               real == real_path(nm.before, nm.path)
               there == real # NoPath /\ entry(nm.before, real).kind # "absent"
           IN  /\ was_dir => (nm.ok /\ fs = nm.before)
               /\ (nm.ok /\ ~was_dir)
                     => /\ ~there
                        /\ fs = fs_put(nm.before, real, Dir)
               /\ nm.ok => is_dir(fs, nm.path)
               /\ (there /\ ~was_dir) => (~nm.ok /\ fs = nm.before)
               /\ (~was_dir /\ (~nm.create_ok
                                   \/ ~is_dir(nm.before, parent(nm.path))))
                     => (~nm.ok /\ fs = nm.before)
               /\ ~nm.ok
                     => nm.err = "failed to create directory "
                                    \o display(nm.path)
               /\ nm.prev_ok => (nm.ok /\ fs = nm.before)

C27_Witness ==
    /\ nm.calls = 2
    /\ nm.prev_ok /\ nm.ok
    /\ nm.path = <<"ld", "t">>
    /\ entry(nm.before, <<"d", "t">>).kind = "dir"
    /\ fs = nm.before

----------------------------------------------------------------------------
(* BuildMode::from_str and BuildMode::name on their own *)

ModeTokens ==
    { "al2", "lambda", "", "AL2", "Lambda", "LAMBDA", "al2 ", " al2", "al",
      "lambda2", "al2lambda", "amazonlinux2", "AmazonLinux2", "lambda-al2",
      "a12" }

NoMode == [ok |-> FALSE, mode |-> "", err |-> ""]

BuildMode_from_str_caseless(str) ==
    IF str \in {"al2", "AL2"}
    THEN [ok |-> TRUE, mode |-> "AmazonLinux2", err |-> ""]
    ELSE IF str \in {"lambda", "Lambda", "LAMBDA"}
    THEN [ok |-> TRUE, mode |-> "Lambda", err |-> ""]
    ELSE [ok |-> FALSE, mode |-> "", err |-> "invalid mode " \o str]

\* lib.rs 286-299
BuildMode_from_str(str) ==
    IF str = "al2"
    THEN [ok |-> TRUE, mode |-> "AmazonLinux2", err |-> ""]
    ELSE IF str = "lambda"
    THEN [ok |-> TRUE, mode |-> "Lambda", err |-> ""]
    ELSE [ok |-> FALSE, mode |-> "", err |-> "invalid mode " \o str]

InitModes ==
    /\ SingleRunAtRest
    /\ conc = NoConc
    /\ nm \in [ token : ModeTokens, mode : BuildModes,
                parsed : {FALSE}, from_token : {NoMode},
                named : {FALSE}, name : {""}, from_name : {NoMode} ]

\* token.parse::<BuildMode>()
Modes_parse ==
    /\ ~nm.parsed
    /\ nm' = [nm EXCEPT !.parsed = TRUE,
                        !.from_token = BuildMode_from_str(nm.token)]
    /\ UNCHANGED <<previous, conc, builder, fs, clock, runs, pc, loc, guard,
                   ret, result, output, logged, trace, latest_before>>

\* mode.name().parse::<BuildMode>()
Modes_name_and_parse ==
    /\ ~nm.named
    /\ nm' = [nm EXCEPT
                !.named = TRUE,
                !.name = BuildMode_name(nm.mode),
                !.from_name = BuildMode_from_str(BuildMode_name(nm.mode))]
    /\ UNCHANGED <<previous, conc, builder, fs, clock, runs, pc, loc, guard,
                   ret, result, output, logged, trace, latest_before>>

NextModes ==
    \/ Modes_parse
    \/ Modes_name_and_parse

SpecModes == InitModes /\ [][NextModes]_vars

\* C29: from_str accepts exactly the tokens al2 and lambda, giving
\* AmazonLinux2 and Lambda, and rejects every other string with an error;
\* from_str(m.name()) gives m; the two variants have different name tokens.
C29_ModeRoundTrip ==
    /\ nm.parsed
          => /\ nm.from_token.ok <=> nm.token \in {"al2", "lambda"}
             /\ nm.token = "al2" => nm.from_token.mode = "AmazonLinux2"
             /\ nm.token = "lambda" => nm.from_token.mode = "Lambda"
             /\ ~nm.from_token.ok => nm.from_token.err # ""
    /\ nm.named
          => /\ nm.from_name.ok /\ nm.from_name.mode = nm.mode
             /\ \A m \in BuildModes \ {nm.mode} : BuildMode_name(m) # nm.name

C29_Witness ==
    /\ nm.parsed /\ nm.named
    /\ nm.token = "Lambda" /\ ~nm.from_token.ok
    /\ nm.mode = "Lambda" /\ nm.from_name.mode = "Lambda"

----------------------------------------------------------------------------
(* Volume::arg of the older docker wrapper (src/docker.rs) on its own *)

VolumePaths ==
    { "/mySrc", "/myDst", "/", "", "rel/dir", "/a b", "/a:b" }

Volume_arg_inverted(v) ==
    v.src \o ":" \o v.dst \o (IF v.read_only THEN ":rw" ELSE ":ro")

\* src/docker.rs 18-31
Volume_arg(v) ==
    v.src \o ":" \o v.dst \o (IF v.read_only THEN ":ro" ELSE ":rw")

InitVolume ==
    /\ SingleRunAtRest
    /\ conc = NoConc
    /\ nm \in [ vol : [src : VolumePaths, dst : VolumePaths,
                       read_only : BOOLEAN],
                applied : {FALSE}, arg : {""} ]

Volume_apply ==
    /\ ~nm.applied
    /\ nm' = [nm EXCEPT !.applied = TRUE, !.arg = Volume_arg(nm.vol)]
    /\ UNCHANGED <<previous, conc, builder, fs, clock, runs, pc, loc, guard,
                   ret, result, output, logged, trace, latest_before>>

NextVolume == Volume_apply

SpecVolume == InitVolume /\ [][NextVolume]_vars

\* C30: the argument is the source, a colon, the destination and then
\* exactly one access suffix, :ro when read_only is set and :rw when not.
C30_VolumeArg ==
    nm.applied
        => LET a == nm.arg
               ns == Len(nm.vol.src)
               nd == Len(nm.vol.dst)
           IN  /\ Len(a) = ns + 1 + nd + 3
               /\ SubSeq(a, 1, ns) = nm.vol.src
               /\ SubSeq(a, ns + 1, ns + 1) = ":"
               /\ SubSeq(a, ns + 2, ns + 1 + nd) = nm.vol.dst
               /\ nm.vol.read_only => SubSeq(a, ns + nd + 2, Len(a)) = ":ro"
               /\ ~nm.vol.read_only => SubSeq(a, ns + nd + 2, Len(a)) = ":rw"

C30_Witness ==
    /\ nm.applied
    /\ nm.vol = [src |-> "/mySrc", dst |-> "/myDst", read_only |-> TRUE]
    /\ nm.arg = "/mySrc:/myDst:ro"

----------------------------------------------------------------------------
(* The older Builder::run, which zips every binary target (src/src/lib.rs) *)

\* Number of calls of the older Builder::run that are followed.
MaxOldRuns == 2

\* the canonical project directories the older run is tried on
OldProjects == { <<"r", "p">>, <<"r">>, <<"r", "l">> }

\* Builder.bin: None, or the name of a binary target of the project
OldBins(project) ==
    {None} \cup { ProjectBinaries(project)[k] :
                     k \in DOMAIN ProjectBinaries(project) }

\* no file below the target directory yet
NoFiles == [p \in {} |-> Absent]

\* the mounts of the older run
old_volumes(project_path) ==
    LET target_dir == join(project_path, "target") IN
    << Volume(project_path, <<"code">>, FALSE, <<>>),
       Volume(target_dir, <<"code", "target">>, TRUE, <<>>) >>

\* zip_names.join("\n")
RECURSIVE join_names(_, _)
join_names(names, sep) ==
    IF names = <<>> THEN ""
    ELSE IF Len(names) = 1 THEN names[1]
    ELSE names[1] \o sep \o join_names(Tail(names), sep)

\* the content written to target/latest
latest_contents(zip_names) == join_names(zip_names, "\n") \o "\n"

\* a `?` or throw! in the older Builder::run
Old_fail(err) == nm' = [nm EXCEPT !.pc = "done", !.result = err]

\* a caller builds a Builder for the project and calls run
Old_run_call ==
    /\ nm.pc \in {"idle", "done"}
    /\ nm.runs < MaxOldRuns
    /\ \E mode \in BuildModes, bin \in OldBins(nm.project),
          day \in {nm.day, nm.day + 1} :
         /\ day <= Len(Dates)
         /\ nm' = [nm EXCEPT !.mode = mode, !.bin = bin, !.day = day,
                             !.runs = nm.runs + 1, !.pc = "prepare",
                             !.binaries = <<>>, !.sel = None, !.i = 0,
                             !.zip_names = <<>>, !.zip_paths = <<>>,
                             !.result = "none", !.returned = <<>>]
    /\ UNCHANGED <<previous, conc, builder, fs, clock, runs, pc, loc, guard,
                   ret, result, output, logged, trace, latest_before>>

\* canonicalize, the directories, the image build and cargo metadata
Old_run_prepare ==
    /\ nm.pc = "prepare"
    /\ \E ok \in BOOLEAN :
         IF ok
         THEN nm' = [nm EXCEPT !.pc = "select",
                               !.binaries = ProjectBinaries(nm.project)]
         ELSE Old_fail("failed to prepare")
    /\ UNCHANGED <<previous, conc, builder, fs, clock, runs, pc, loc, guard,
                   ret, result, output, logged, trace, latest_before>>

Old_run_select_bin ==
    /\ nm.pc = "select"
    /\ IF nm.bin # None
       THEN nm' = [nm EXCEPT !.sel = nm.bin, !.pc = "container"]
       ELSE IF Len(nm.binaries) = 1
       THEN nm' = [nm EXCEPT !.sel = nm.binaries[1], !.pc = "container"]
       ELSE Old_fail("must specify bin target when package has more than one")
    /\ UNCHANGED <<previous, conc, builder, fs, clock, runs, pc, loc, guard,
                   ret, result, output, logged, trace, latest_before>>

\* the container run: on success the build script has left the selected
\* binary at TARGET_DIR/release/BIN_TARGET, seen through the target mount
Old_run_container ==
    /\ nm.pc = "container"
    /\ \E ok \in BOOLEAN, c \in Contents :
         LET env == [ TARGET_DIR |->
                         <<"code", "target", BuildMode_name(nm.mode)>>,
                      BIN_TARGET |-> nm.sel ]
             bin_host == host_image(old_volumes(nm.project),
                                    script_bin_path(env))
         IN  IF ok
             THEN nm' = [nm EXCEPT !.files = fs_put(nm.files, bin_host,
                                                    File(c)),
                                   !.pc = "zip", !.i = 1]
             ELSE Old_fail("container run failed")
    /\ UNCHANGED <<previous, conc, builder, fs, clock, runs, pc, loc, guard,
                   ret, result, output, logged, trace, latest_before>>

Old_run_zip_selected_only ==
    /\ nm.pc = "zip"
    /\ nm.i <= Len(nm.binaries)
    /\ \E outcome \in PackageOutcomes :
         LET target_dir == join(nm.project, "target")
             name == nm.binaries[nm.i]
             src == join(join(join(target_dir, "lambda"), "release"), name)
             contents == entry(nm.files, src).data
             dst_name == make_zip_name(name, contents, Dates[nm.day])
             dst == join(target_dir, dst_name)
         IN  IF name # nm.sel
             THEN nm' = [nm EXCEPT !.i = nm.i + 1]
             ELSE IF entry(nm.files, src).kind # "file"
             THEN Old_fail("failed to read")
             ELSE CASE outcome = "ok" ->
                         nm' = [nm EXCEPT
                                  !.zip_names = Append(nm.zip_names, dst_name),
                                  !.zip_paths = Append(nm.zip_paths, dst),
                                  !.files = fs_put(nm.files, dst,
                                                   File(Zip(contents))),
                                  !.i = nm.i + 1]
                    [] outcome = "not created" ->
                         nm' = [nm EXCEPT
                                  !.zip_names = Append(nm.zip_names, dst_name),
                                  !.zip_paths = Append(nm.zip_paths, dst),
                                  !.pc = "done",
                                  !.result = "failed to create"]
                    [] outcome = "unfinished" ->
                         nm' = [nm EXCEPT
                                  !.zip_names = Append(nm.zip_names, dst_name),
                                  !.zip_paths = Append(nm.zip_paths, dst),
                                  !.files = fs_put(nm.files, dst,
                                             File(Unfinished(Zip(contents)))),
                                  !.pc = "done",
                                  !.result = "failed to write"]
    /\ UNCHANGED <<previous, conc, builder, fs, clock, runs, pc, loc, guard,
                   ret, result, output, logged, trace, latest_before>>

\* one turn of `for name in binaries`
Old_run_zip ==
    /\ nm.pc = "zip"
    /\ nm.i <= Len(nm.binaries)
    /\ \E outcome \in PackageOutcomes :
         LET target_dir == join(nm.project, "target")
             name == nm.binaries[nm.i]
             src == join(join(join(target_dir, "lambda"), "release"), name)
             contents == entry(nm.files, src).data
             dst_name == make_zip_name(name, contents, Dates[nm.day])
             dst == join(target_dir, dst_name)
         IN  IF entry(nm.files, src).kind # "file"
             THEN Old_fail("failed to read")
             ELSE CASE outcome = "ok" ->
                         nm' = [nm EXCEPT
                                  !.zip_names = Append(nm.zip_names, dst_name),
                                  !.zip_paths = Append(nm.zip_paths, dst),
                                  !.files = fs_put(nm.files, dst,
                                                   File(Zip(contents))),
                                  !.i = nm.i + 1]
                    [] outcome = "not created" ->
                         nm' = [nm EXCEPT
                                  !.zip_names = Append(nm.zip_names, dst_name),
                                  !.zip_paths = Append(nm.zip_paths, dst),
                                  !.pc = "done",
                                  !.result = "failed to create"]
                    [] outcome = "unfinished" ->
                         nm' = [nm EXCEPT
                                  !.zip_names = Append(nm.zip_names, dst_name),
                                  !.zip_paths = Append(nm.zip_paths, dst),
                                  !.files = fs_put(nm.files, dst,
                                             File(Unfinished(Zip(contents)))),
                                  !.pc = "done",
                                  !.result = "failed to write"]
    /\ UNCHANGED <<previous, conc, builder, fs, clock, runs, pc, loc, guard,
                   ret, result, output, logged, trace, latest_before>>

\* fs::write of target/latest after the loop, and the return of zip_paths
Old_run_latest ==
    /\ nm.pc = "zip"
    /\ nm.i > Len(nm.binaries)
    /\ \E outcome \in PackageOutcomes :
         LET latest_path == join(join(nm.project, "target"), "latest")
             data == latest_contents(nm.zip_names)
         IN  CASE outcome = "ok" ->
                    nm' = [nm EXCEPT
                             !.files = fs_put(nm.files, latest_path,
                                              File(data)),
                             !.pc = "done", !.result = "ok",
                             !.returned = nm.zip_paths]
               [] outcome = "not created" -> Old_fail("failed to write latest")
               [] outcome = "unfinished" ->
                    nm' = [nm EXCEPT
                             !.files = fs_put(nm.files, latest_path,
                                              File(Unfinished(data))),
                             !.pc = "done",
                             !.result = "failed to write latest"]
    /\ UNCHANGED <<previous, conc, builder, fs, clock, runs, pc, loc, guard,
                   ret, result, output, logged, trace, latest_before>>

InitOld ==
    /\ SingleRunAtRest
    /\ conc = NoConc
    /\ nm \in [ project : OldProjects, mode : {"AmazonLinux2"}, bin : {None},
                day : {1}, runs : {0}, pc : {"idle"}, binaries : {<<>>},
                sel : {None}, i : {0}, zip_names : {<<>>},
                zip_paths : {<<>>}, files : {NoFiles}, result : {"none"},
                returned : {<<>>} ]

NextOld ==
    \/ Old_run_call
    \/ Old_run_prepare
    \/ Old_run_select_bin
    \/ Old_run_container
    \/ Old_run_zip
    \/ Old_run_latest

SpecOld == InitOld /\ [][NextOld]_vars

\* the lines of a text file: the pieces between line feeds, the last line
\* feed ending the last line
RECURSIVE lines(_)
lines(text) ==
    IF text = "" THEN <<>>
    ELSE LET feeds == {k \in 1..Len(text) : SubSeq(text, k, k) = "\n"}
         IN  IF feeds = {} THEN <<text>>
             ELSE LET k == CHOOSE j \in feeds : \A h \in feeds : j <= h
                  IN  <<SubSeq(text, 1, k - 1)>>
                         \o lines(SubSeq(text, k + 1, Len(text)))

\* the older run has returned Ok
OldSucceeded == nm.pc = "done" /\ nm.result = "ok"

----------------------------------------------------------------------------
(* git checkout of a revision (src/src/command.rs, git.rs, main.rs) *)

\* Number of checkouts that are followed in one repository.
MaxCheckouts == 2

\* a branch, a tag and a commit hash
Revs == {"master", "v1.0", "46794db"}

\* the three copies of the checkout: command.rs, git.rs and main.rs
CheckoutVariants == {"git_checkout", "Repo::checkout", "main"}

\* how Command::status can end: the command could not be started, or it
\* exited with or without success
Statuses == {"not started", "success", "failure"}

\* what the caller sees when the checkout gives up: main.rs aborts the
\* process, the other two return the error
checkout_error(variant) == IF variant = "main" THEN "abort" ELSE "err"

InitGit ==
    /\ SingleRunAtRest
    /\ conc = NoConc
    /\ nm \in [ variant : CheckoutVariants, rev : Revs, calls : {0},
                pc : {"idle"}, attempts : {<<>>}, result : {"none"},
                head : {"HEAD"} ]

git_checkout_call ==
    /\ nm.pc \in {"idle", "returned"}
    /\ nm.calls < MaxCheckouts
    /\ \E rev \in Revs :
         nm' = [nm EXCEPT !.rev = rev, !.calls = nm.calls + 1,
                          !.pc = "origin", !.attempts = <<>>,
                          !.result = "none"]
    /\ UNCHANGED <<previous, conc, builder, fs, clock, runs, pc, loc, guard,
                   ret, result, output, logged, trace, latest_before>>

git_checkout_origin_checked ==
    /\ nm.pc = "origin"
    /\ \E status \in Statuses :
         LET target == "origin/" \o nm.rev
             tried == Append(nm.attempts,
                             [target |-> target, status |-> status])
         IN  IF status = "success"
             THEN nm' = [nm EXCEPT !.attempts = tried, !.head = target,
                                   !.pc = "returned", !.result = "ok"]
             ELSE nm' = [nm EXCEPT !.attempts = tried, !.pc = "returned",
                                   !.result = checkout_error(nm.variant)]
    /\ UNCHANGED <<previous, conc, builder, fs, clock, runs, pc, loc, guard,
                   ret, result, output, logged, trace, latest_before>>

\* run_cmd_no_check of `git checkout origin/<rev>` and the test of its status
git_checkout_origin ==
    /\ nm.pc = "origin"
    /\ \E status \in Statuses :
         LET target == "origin/" \o nm.rev
             tried == Append(nm.attempts,
                             [target |-> target, status |-> status])
         IN  CASE status = "not started" ->
                    nm' = [nm EXCEPT !.attempts = tried, !.pc = "returned",
                                     !.result = checkout_error(nm.variant)]
               [] status = "success" ->
                    nm' = [nm EXCEPT !.attempts = tried, !.head = target,
                                     !.pc = "returned", !.result = "ok"]
               [] status = "failure" ->
                    nm' = [nm EXCEPT !.attempts = tried, !.pc = "rev"]
    /\ UNCHANGED <<previous, conc, builder, fs, clock, runs, pc, loc, guard,
                   ret, result, output, logged, trace, latest_before>>

\* run_cmd of `git checkout <rev>`
git_checkout_rev ==
    /\ nm.pc = "rev"
    /\ \E status \in Statuses :
         LET tried == Append(nm.attempts,
                             [target |-> nm.rev, status |-> status])
         IN  IF status = "success"
             THEN nm' = [nm EXCEPT !.attempts = tried, !.head = nm.rev,
                                   !.pc = "returned", !.result = "ok"]
             ELSE nm' = [nm EXCEPT !.attempts = tried, !.pc = "returned",
                                   !.result = checkout_error(nm.variant)]
    /\ UNCHANGED <<previous, conc, builder, fs, clock, runs, pc, loc, guard,
                   ret, result, output, logged, trace, latest_before>>

NextGit ==
    \/ git_checkout_call
    \/ git_checkout_origin
    \/ git_checkout_rev

SpecGit == InitGit /\ [][NextGit]_vars

\* the checkout has returned, or has ended the process
CheckoutReturned == nm.pc = "returned"

\* C40: the first command of a checkout is the checkout of origin/<rev>; at
\* most one more follows, the checkout of <rev>, and it is run exactly when
\* the first one was started and exited without success; the checkout
\* fails only when both exited without success or when a command could not
\* be started, and when it does not fail the last command run succeeded.
C40_CheckoutFallback ==
    LET a == nm.attempts IN
    /\ Len(a) <= 2
    /\ Len(a) >= 1 => a[1].target = "origin/" \o nm.rev
    /\ Len(a) = 2 => a[2].target = nm.rev
    /\ nm.pc = "rev" => (Len(a) = 1 /\ a[1].status = "failure")
    /\ CheckoutReturned
          => /\ Len(a) >= 1
             /\ Len(a) = 2 <=> a[1].status = "failure"
             /\ nm.result # "ok"
                   => \/ \E k \in DOMAIN a : a[k].status = "not started"
                      \/ /\ Len(a) = 2
                         /\ a[1].status = "failure"
                         /\ a[2].status = "failure"
             /\ nm.result = "ok"
                   => /\ a[Len(a)].status = "success"
                      /\ nm.head = a[Len(a)].target

C40_Witness ==
    /\ CheckoutReturned
    /\ nm.rev = "v1.0"
    /\ nm.attempts = << [target |-> "origin/v1.0", status |-> "failure"],
                        [target |-> "v1.0", status |-> "success"] >>
    /\ nm.result = "ok"
    /\ nm.head = "v1.0"

====
